---- MODULE Spec2Model ----
(***************************************************************************)
(* The security core of the password manager as state machines.            *)
(*                                                                         *)
(* Login throttle (server/src/routes/auth.ts).  The POST /login handler is *)
(* an async function: between two awaits it runs without interruption, at  *)
(* an await other requests (and the wall clock) may move.  Each request    *)
(* therefore advances in the steps                                         *)
(*   LoginReject / LoginFind  (validation, prisma.user.findUnique)         *)
(*   LoginCheck               (now = new Date(), lockout gate, bcrypt)     *)
(*   LoginFail / LoginSucceed (prisma.user.update and the response)        *)
(* Times are milliseconds since the epoch of the model, as Date.getTime(). *)
(*                                                                         *)
(* Encryption (server/src/utils/crypto.ts).  Strings are sequences of      *)
(* UTF-16 code units or code points, buffers are sequences of bytes; hex   *)
(* and utf8 conversions, split(':') and the padding are modelled as Node   *)
(* performs them.  PBKDF2 and AES are replaced by a keyed byte permutation *)
(* with chaining, which keeps what the callers rely on: the key depends    *)
(* on the salt, the output on key, IV and text, and a wrong key or a       *)
(* damaged input yields other bytes or a failed padding check.             *)
(*                                                                         *)
(* Password entries (server/src/routes/passwords.ts).  In SpecVault one    *)
(* action per route; in SpecStore and SpecRace the handlers that write are *)
(* split at their awaits (find, duplicate check, tag check, write), and    *)
(* the write is refused by the foreign keys and unique indexes of the      *)
(* schema as the database refuses it.                                      *)
(*                                                                         *)
(* Tags and users (server/src/routes/tags.ts, users.ts).  The tables with  *)
(* their cascades; the handlers of the users router are split between the  *)
(* lookup and the write.  SpecAdmin starts with or without the sample tag  *)
(* of prisma/seed.ts.                                                      *)
(*                                                                         *)
(* CSV (client/src/utils/csvUtils.ts).  exportPasswordsToCSV and           *)
(* parsePasswordsFromCSV character by character.                           *)
(***************************************************************************)
EXTENDS Integers, FiniteSets, Sequences, Bags, TLC

\* ---------------------------------------------------------------- bounds

\* Number of login requests that may be in flight at the same time.
NumReqs == 2

\* The wall clock stops advancing after this many 30-second periods while
\* requests run concurrently (Spec) ...
Horizon == 2

\* ... and after this many while they run one at a time (SpecSeq).
HorizonSeq == 40

\* Largest argument the tier function is applied to in SpecTier.
MaxArg == 120

\* Number of different buffers crypto.randomBytes may return for one size.
NumRandom == 2

\* Number of calls of encrypt in a behaviour of SpecCrypto.
MaxCalls == 2

\* Number of password entries the table may hold in SpecVault.
MaxEntries == 1

\* Longest site, username or password in the lists exported to CSV.
MaxField == 2

\* Tags and password entries created in SpecStore and SpecAdmin.
MaxTags == 2

MaxRows == 2

\* ------------------------------------------------------------- constants

\* A column that holds SQL NULL / a JavaScript null or absent field.
Null == -1

\* Progressive lockout durations in milliseconds.
LOCKOUT_DURATIONS == (3 :> 30 * 1000) @@ (5 :> 3 * 60 * 1000) @@ (8 :> 10 * 60 * 1000)

\* The accounts of the users table.
Users == {"alice", "bob"}

\* The amounts by which the wall clock advances between two steps.
TickSteps == {30 * 1000, 3 * 60 * 1000, 10 * 60 * 1000}

\* --------------------------------------------------------------- helpers

\* Math.ceil(a / b) for a >= 0, b > 0.
Ceil(a, b) == (a + b - 1) \div b

\* Math.max
Max(a, b) == IF a >= b THEN a ELSE b

\* bcrypt: the stored hash of a password, and the comparison against it.
Hash(p) == <<"bcrypt", p>>

BcryptCompare(p, h) == Hash(p) = h

\* The password each account was created with.
PasswordOf(u) == "secret-" \o u

\* loginSchema: both fields are strings of at least one character.
LoginSchemaOk(name, password) == name # "" /\ password # ""

\* Mutant: the thresholds are compared with > instead of >=.
getLockoutDurationStrict(attempts) ==
    IF attempts > 8 THEN LOCKOUT_DURATIONS[8]
    ELSE IF attempts > 5 THEN LOCKOUT_DURATIONS[5]
    ELSE IF attempts > 3 THEN LOCKOUT_DURATIONS[3]
    ELSE 0

\* Mutant: a lock is given only on the count that crosses a threshold.
getLockoutDurationCrossing(attempts) ==
    IF attempts = 8 THEN LOCKOUT_DURATIONS[8]
    ELSE IF attempts = 5 THEN LOCKOUT_DURATIONS[5]
    ELSE IF attempts = 3 THEN LOCKOUT_DURATIONS[3]
    ELSE 0

\* Get lockout duration based on attempt count.
getLockoutDuration(attempts) ==
    IF attempts >= 8 THEN LOCKOUT_DURATIONS[8]
    ELSE IF attempts >= 5 THEN LOCKOUT_DURATIONS[5]
    ELSE IF attempts >= 3 THEN LOCKOUT_DURATIONS[3]
    ELSE 0

\* Mutant: the comparison of the gate is inverted.
IsLockedOutInverted(user, now) == user.lockedUntil # Null /\ user.lockedUntil < now

\* Mutant: the gate ignores the time, a lock never expires.
IsLockedOutForever(user, now) == user.lockedUntil # Null

\* user.lockedUntil && user.lockedUntil > now
IsLockedOut(user, now) == user.lockedUntil # Null /\ user.lockedUntil > now

\* ------------------------------------------------------ utils/crypto.ts

\* A string is the sequence of its code points (below 65536; an unpaired
\* UTF-16 surrogate, which a JavaScript string may hold, appears as its own
\* code unit). Bytes are the numbers 0 .. 255, buffers sequences of bytes.

\* process.env.PWD_SECRET_KEY || 'ThisSecretKeyShouldBeChanged'
SECRET_KEY == "ThisSecretKeyShouldBeChanged"

ALGORITHM == "aes-256-cbc"

\* The separator of the stored form, ':'.
Colon == 58

\* The length of an initialization vector and of a salt before hex encoding.
IvBytes == 16

\* The block size of AES.
BlockBytes == 16

\* The member a destructuring pattern finds no element for.
Undefined == <<Null>>

\* !x for a string (or a missing one).
Falsy(x) == x = Undefined \/ x = <<>>

\* buffer.toString('hex'): two lower-case digits per byte.
HexDigit(v) == IF v < 10 THEN 48 + v ELSE 87 + v

ToHex(bytes) ==
    [i \in 1 .. 2 * Len(bytes) |->
        IF i % 2 = 1 THEN HexDigit(bytes[(i + 1) \div 2] \div 16)
        ELSE HexDigit(bytes[i \div 2] % 16)]

\* Decoding of 'hex' input: digits of either case, pair by pair, up to the first
\* pair that is not two hex digits (a trailing single character is dropped).
HexValue(c) ==
    IF c \in 48 .. 57 THEN c - 48
    ELSE IF c \in 97 .. 102 THEN c - 87
    ELSE IF c \in 65 .. 70 THEN c - 55
    ELSE Null

FromHex(str) ==
    LET pairs == 1 .. (Len(str) \div 2)
        bad   == {k \in pairs : HexValue(str[2 * k - 1]) = Null \/ HexValue(str[2 * k]) = Null}
        n     == IF bad = {} THEN Len(str) \div 2
                 ELSE (CHOOSE k \in bad : \A j \in bad : k <= j) - 1
    IN [k \in 1 .. n |-> 16 * HexValue(str[2 * k - 1]) + HexValue(str[2 * k])]

\* Mutant: characters from U+0080 on are written as one byte (latin1).
Utf8OfLatin1(c) == <<c % 256>>

\* The 'utf8' encoding of one code point; an unpaired surrogate is written as
\* U+FFFD (EF BF BD).
Utf8Of(c) ==
    IF c < 128 THEN <<c>>
    ELSE IF c < 2048 THEN <<192 + (c \div 64), 128 + (c % 64)>>
    ELSE IF c \in 55296 .. 57343 THEN <<239, 191, 189>>
    ELSE <<224 + (c \div 4096), 128 + ((c \div 64) % 64), 128 + (c % 64)>>

RECURSIVE Utf8Encode(_)
Utf8Encode(text) ==
    IF text = <<>> THEN <<>> ELSE Utf8Of(Head(text)) \o Utf8Encode(Tail(text))

\* The 'utf8' decoding of a buffer; a byte that starts no valid sequence is read
\* as U+FFFD.
RECURSIVE Utf8Decode(_)
Utf8Decode(bytes) ==
    IF bytes = <<>> THEN <<>>
    ELSE LET b        == bytes[1]
             n        == Len(bytes)
             Cont(i)  == i <= n /\ bytes[i] \in 128 .. 191
             two      == (b - 192) * 64 + (bytes[2] - 128)
             three    == (b - 224) * 4096 + (bytes[2] - 128) * 64 + (bytes[3] - 128)
         IN IF b < 128 THEN <<b>> \o Utf8Decode(Tail(bytes))
            ELSE IF b \in 194 .. 223 /\ Cont(2)
              THEN <<two>> \o Utf8Decode(SubSeq(bytes, 3, n))
            ELSE IF b \in 224 .. 239 /\ Cont(2) /\ Cont(3) /\ three >= 2048
                    /\ three \notin 55296 .. 57343
              THEN <<three>> \o Utf8Decode(SubSeq(bytes, 4, n))
            ELSE <<65533>> \o Utf8Decode(Tail(bytes))

\* string.split(sep): the pieces between the occurrences of sep.
RECURSIVE Split(_, _)
Split(str, sep) ==
    LET at == {i \in 1 .. Len(str) : str[i] = sep}
    IN IF at = {} THEN <<str>>
       ELSE LET k == CHOOSE i \in at : \A j \in at : i <= j
            IN <<SubSeq(str, 1, k - 1)>> \o Split(SubSeq(str, k + 1, Len(str)), sep)

\* const [a, b] = parts: the i-th element, undefined when there is none.
Part(parts, i) == IF i <= Len(parts) THEN parts[i] ELSE Undefined

\* crypto.randomBytes(size): the buffers the model lets it return.
RandomBytes(size) == {[i \in 1 .. size |-> (61 * k + 16 * i) % 256] : k \in 1 .. NumRandom}

\* crypto.pbkdf2Sync: the derived key, kept as the term of its arguments.
Pbkdf2Sync(password, salt, iterations, keylen, digest) ==
    [password |-> password, salt |-> salt, iterations |-> iterations,
     keylen |-> keylen, digest |-> digest]

\* The block cipher. AES is not computed bit for bit: a permutation of the byte
\* values chosen by the key stands for the keyed permutation of blocks, and the
\* chaining adds modulo 256 where CBC uses exclusive or. Kept as in the library:
\* the key decides the permutation, every block is chained to the block before
\* it (the first to the IV), the text is padded to whole blocks (PKCS#7), and
\* decryption fails on an IV of the wrong length, on data that is not a positive
\* number of whole blocks and on wrong padding.
RECURSIVE Sum(_)
Sum(seq) == IF seq = <<>> THEN 0 ELSE Head(seq) + Sum(Tail(seq))

RoundKey(key) == 1 + ((Sum(key.salt) + key.keylen) % 255)

AesEncryptByte(roundKey, b) == (b + roundKey) % 256

AesDecryptByte(roundKey, b) == (b + 256 - roundKey) % 256

Pkcs7Pad(bytes) ==
    LET n == BlockBytes - (Len(bytes) % BlockBytes)
    IN bytes \o [i \in 1 .. n |-> n]

Pkcs7Ok(bytes) ==
    /\ Len(bytes) > 0
    /\ Len(bytes) % BlockBytes = 0
    /\ LET n == bytes[Len(bytes)]
       IN /\ n \in 1 .. BlockBytes
          /\ \A i \in Len(bytes) - n + 1 .. Len(bytes) : bytes[i] = n

Pkcs7Unpad(bytes) == SubSeq(bytes, 1, Len(bytes) - bytes[Len(bytes)])

\* cipher.update + cipher.final
CbcEncrypt(key, iv, bytes) ==
    LET padded   == Pkcs7Pad(bytes)
        roundKey == RoundKey(key)
        c[n \in 1 .. Len(padded)] ==
            AesEncryptByte(roundKey, (padded[n] + (IF n <= BlockBytes THEN iv[n]
                                                   ELSE c[n - BlockBytes])) % 256)
    IN [n \in 1 .. Len(padded) |-> c[n]]

\* decipher.update before the padding is checked
CbcDecrypt(key, iv, data) ==
    LET roundKey == RoundKey(key)
    IN [n \in 1 .. Len(data) |->
          (AesDecryptByte(roundKey, data[n]) + 256
             - (IF n <= BlockBytes THEN iv[n] ELSE data[n - BlockBytes])) % 256]

\* What a call gave back: the value returned, or an exception thrown.
Returned(value) == [threw |-> FALSE, value |-> value]

Thrown == [threw |-> TRUE, value |-> <<>>]

\* generateSalt: 16 random bytes as 32 hex digits; random is what
\* crypto.randomBytes(16) returned.
generateSalt(random) == ToHex(random)

\* Mutant: the IV is a constant of the module, not the bytes drawn for the call.
encryptFixedIv(text, salt, random) ==
    IF text = <<>> THEN [out |-> <<>>, random |-> random]
    ELSE LET key       == Pbkdf2Sync(SECRET_KEY, salt, 100000, 32, "sha256")
             iv        == [i \in 1 .. IvBytes |-> 0]
             encrypted == ToHex(CbcEncrypt(key, iv, Utf8Encode(text)))
         IN [out |-> ToHex(iv) \o <<Colon>> \o encrypted, random |-> Tail(random)]

\* Mutant: the empty string is encrypted like any other text.
encryptEmptyToo(text, salt, random) ==
    LET key       == Pbkdf2Sync(SECRET_KEY, salt, 100000, 32, "sha256")
        iv        == Head(random)
        encrypted == ToHex(CbcEncrypt(key, iv, Utf8Encode(text)))
    IN [out |-> ToHex(iv) \o <<Colon>> \o encrypted, random |-> Tail(random)]

\* encrypt(text, salt). random is the sequence of buffers that the coming calls
\* of crypto.randomBytes(16) return; the call gives back its result (out) and
\* what is left of random.
encrypt(text, salt, random) ==
    IF text = <<>> THEN [out |-> <<>>, random |-> random]
    ELSE LET key       == Pbkdf2Sync(SECRET_KEY, salt, 100000, 32, "sha256")
             iv        == Head(random)
             encrypted == ToHex(CbcEncrypt(key, iv, Utf8Encode(text)))
         IN [out |-> ToHex(iv) \o <<Colon>> \o encrypted, random |-> Tail(random)]

\* Mutant: the check for a missing part is left out.
decryptUnguarded(encryptedData, salt) ==
    IF encryptedData = <<>> THEN Returned(<<>>)
    ELSE LET parts     == Split(encryptedData, Colon)
             ivHex     == Part(parts, 1)
             encrypted == Part(parts, 2)
             key       == Pbkdf2Sync(SECRET_KEY, salt, 100000, 32, "sha256")
             iv        == IF ivHex = Undefined THEN <<>> ELSE FromHex(ivHex)
             data      == IF encrypted = Undefined THEN <<>> ELSE FromHex(encrypted)
             bytes     == CbcDecrypt(key, iv, data)
         IN IF Len(iv) # IvBytes THEN Thrown
            ELSE IF ~Pkcs7Ok(bytes) THEN Thrown
            ELSE Returned(Utf8Decode(Pkcs7Unpad(bytes)))

\* decrypt(encryptedData, salt): the string it returns, or the exception of
\* createDecipheriv (IV length) or decipher.final (padding) that it lets through.
decrypt(encryptedData, salt) ==
    IF encryptedData = <<>> THEN Returned(<<>>)
    ELSE LET parts     == Split(encryptedData, Colon)
             ivHex     == Part(parts, 1)
             encrypted == Part(parts, 2)
         IN IF Falsy(ivHex) \/ Falsy(encrypted) THEN Returned(<<>>)
            ELSE LET key   == Pbkdf2Sync(SECRET_KEY, salt, 100000, 32, "sha256")
                     iv    == FromHex(ivHex)
                     data  == FromHex(encrypted)
                     bytes == CbcDecrypt(key, iv, data)
                 IN IF Len(iv) # IvBytes THEN Thrown
                    ELSE IF ~Pkcs7Ok(bytes) THEN Thrown
                    ELSE Returned(Utf8Decode(Pkcs7Unpad(bytes)))

\* ---------------------------------------------------- routes/passwords.ts

\* A password or notes column that holds NULL, and null in a response.
DbNull == <<Null>>

\* A field the request body does not have (site, username: strings of the model).
Absent == "undefined"

\* The sites and usernames of the requests: as many sites as the table may hold
\* entries, and '', which fails the schemas (min 1).
SiteNames == <<"a.example", "b.example", "c.example">>

Sites == {""} \cup {SiteNames[i] : i \in 1 .. MaxEntries}

Usernames == {"joe"}

\* The password and notes of the requests: absent, '', 'a' with U+00E9, and an
\* unpaired surrogate U+D800.
TextArgs == {Undefined, <<>>, <<97, 233>>, <<55296>>}

\* createPasswordEntrySchema / updatePasswordEntrySchema on site and username.
CreateSchemaOk(site, username) == site \notin {"", Absent} /\ username \notin {"", Absent}

UpdateSchemaOk(site, username) == site # "" /\ username # ""

\* x ? encrypt(x, salt) : null, with the buffer crypto.randomBytes would return.
EncryptOrNull(x, s, random) == IF Falsy(x) THEN DbNull ELSE encrypt(x, s, <<random>>).out

\* x ? decrypt(x, salt) : null
DecryptOrNull(x, s) == IF x = DbNull THEN Returned(DbNull) ELSE decrypt(x, s)

\* The row of prisma.passwordEntry.create: createData with the generated salt.
CreatedRow(id, userId, site, username, password, notes, random) ==
    LET s == generateSalt(random[1])
    IN [id |-> id, userId |-> userId, site |-> site, username |-> username,
        password |-> EncryptOrNull(password, s, random[2]),
        notes |-> EncryptOrNull(notes, s, random[3]), salt |-> s]

\* Mutant: an update of the password draws a new salt for the entry.
UpdatedRowNewSalt(existingEntry, site, username, password, notes, random) ==
    LET s == IF password # Undefined THEN generateSalt(random[1]) ELSE existingEntry.salt
    IN [existingEntry EXCEPT
          !.site = IF site # Absent THEN site ELSE @,
          !.username = IF username # Absent THEN username ELSE @,
          !.password = IF password # Undefined THEN EncryptOrNull(password, s, random[2]) ELSE @,
          !.notes = IF notes # Undefined THEN EncryptOrNull(notes, s, random[3]) ELSE @,
          !.salt = s]

\* The row after prisma.passwordEntry.update with updateData: only the fields the
\* body has; password and notes are encrypted under the salt of existingEntry.
UpdatedRow(existingEntry, site, username, password, notes, random) ==
    LET s == existingEntry.salt
    IN [existingEntry EXCEPT
          !.site = IF site # Absent THEN site ELSE @,
          !.username = IF username # Absent THEN username ELSE @,
          !.password = IF password # Undefined THEN EncryptOrNull(password, s, random[2]) ELSE @,
          !.notes = IF notes # Undefined THEN EncryptOrNull(notes, s, random[3]) ELSE @]

\* Mutant: the decrypted notes are sent with the entry.
decryptedEntryWithNotes(entry) ==
    [id |-> entry.id, site |-> entry.site, username |-> entry.username,
     password |-> DecryptOrNull(entry.password, entry.salt).value,
     notes |-> DecryptOrNull(entry.notes, entry.salt).value,
     hasNotes |-> entry.notes # DbNull, userId |-> entry.userId, tags |-> <<>>]

\* decryptedEntry / formattedEntry: what the list, single-entry, create and update
\* endpoints send of a row (createdAt and updatedAt are not modelled; the model
\* has no tags yet).
decryptedEntry(entry) ==
    [id |-> entry.id, site |-> entry.site, username |-> entry.username,
     password |-> DecryptOrNull(entry.password, entry.salt).value,
     hasNotes |-> entry.notes # DbNull, userId |-> entry.userId, tags |-> <<>>]

\* warnings, added to the body when the password is shorter than 12 characters.
WithWarnings(body, password) ==
    IF ~Falsy(password) /\ Len(password) < 12
      THEN body @@ [warnings |-> <<"Password is less than 12 characters">>]
      ELSE body

\* res.status(status).json(body) of the endpoint, for the authenticated caller.
Reply(endpoint, caller, status, body) ==
    [endpoint |-> endpoint, caller |-> caller, status |-> status, body |-> body]

\* The catch block of every handler.
InternalError(endpoint, caller) == Reply(endpoint, caller, 500, [error |-> "Internal server error"])

\* ------------------------------------------------ client utils/csvUtils.ts

\* The characters '"', ',', ';' and the line feed.
Quote == 34

Comma == 44

Semicolon == 59

LineFeed == 10

\* White space as String.prototype.trim removes it (the characters below 256).
WhiteSpace == {9, 10, 11, 12, 13, 32, 160}

\* String.prototype.trim
Trim(text) ==
    LET inner == {i \in 1 .. Len(text) : text[i] \notin WhiteSpace}
    IN IF inner = {} THEN <<>>
       ELSE SubSeq(text, CHOOSE i \in inner : \A j \in inner : i <= j,
                         CHOOSE i \in inner : \A j \in inner : i >= j)

\* Array.prototype.join
RECURSIVE Join(_, _)
Join(parts, sep) ==
    IF parts = <<>> THEN <<>>
    ELSE IF Len(parts) = 1 THEN parts[1]
    ELSE parts[1] \o sep \o Join(Tail(parts), sep)

\* text.replace(/"/g, '""'): the pieces between the quotes, joined by '""'.
DoubleQuotes(text) == Join(Split(text, Quote), <<Quote, Quote>>)

\* `"${text.replace(/"/g, '""')}"`
InQuotes(text) == <<Quote>> \o DoubleQuotes(text) \o <<Quote>>

\* Site, Username, Password, Notes, Tags, Created At, Updated At
headers ==
    <<<<83, 105, 116, 101>>,
      <<85, 115, 101, 114, 110, 97, 109, 101>>,
      <<80, 97, 115, 115, 119, 111, 114, 100>>,
      <<78, 111, 116, 101, 115>>,
      <<84, 97, 103, 115>>,
      <<67, 114, 101, 97, 116, 101, 100, 32, 65, 116>>,
      <<85, 112, 100, 97, 116, 101, 100, 32, 65, 116>>>>

\* The createdAt and updatedAt of the entries exported: 2024-01-01T00:00:00Z
Timestamp == <<50, 48, 50, 52, 45, 48, 49, 45, 48, 49, 84, 48, 48, 58, 48, 48, 58, 48, 48, 90>>

\* An entry as the list endpoint sends it: no notes, no tags.
PasswordEntry(site, username, password) ==
    [id |-> "id", site |-> site, username |-> username, password |-> password,
     hasNotes |-> FALSE, tags |-> <<>>, createdAt |-> Timestamp, updatedAt |-> Timestamp]

\* exportPasswordsToCSV(passwords), called without passwordNotes: the notes
\* column is '' and so is the tags column of an entry without tags.
exportPasswordsToCSV(passwords) ==
    LET csvRow(password) ==
            Join(<<InQuotes(password.site), InQuotes(password.username),
                   InQuotes(password.password), InQuotes(<<>>),
                   InQuotes(Join(password.tags, <<Semicolon>>)),
                   InQuotes(password.createdAt), InQuotes(password.updatedAt)>>,
                 <<Comma>>)
        csvRows == <<Join(headers, <<Comma>>)>>
                   \o [i \in 1 .. Len(passwords) |-> csvRow(passwords[i])]
    IN Join(csvRows, <<LineFeed>>)

\* One turn of the loop of parseCSVLine, at position i (counted from 1). The
\* state is result, current, inQuotes and skip: the turn steps over the next
\* character as well (i++ after a doubled quote).
ParseStep(line, i, s) ==
    LET char == line[i]
        next == IF i < Len(line) THEN line[i + 1] ELSE Null
    IN IF char = Quote /\ (i = 1 \/ line[i - 1] = Comma)
         THEN [s EXCEPT !.inQuotes = TRUE]
       ELSE IF char = Quote /\ s.inQuotes /\ (i = Len(line) \/ next = Comma)
         THEN [s EXCEPT !.inQuotes = FALSE]
       ELSE IF char = Quote /\ s.inQuotes /\ next = Quote
         THEN [s EXCEPT !.current = Append(@, Quote), !.skip = TRUE]
       ELSE IF char = Comma /\ ~s.inQuotes
         THEN [s EXCEPT !.result = Append(@, s.current), !.current = <<>>]
       ELSE IF char # Quote \/ s.inQuotes
         THEN [s EXCEPT !.current = Append(@, char)]
       ELSE s

\* The turns for the positions lo .. hi, in order: those up to the middle, then
\* the others, from one position further when the last turn stepped over it.
RECURSIVE ParseLoop(_, _, _, _)
ParseLoop(line, lo, hi, s) ==
    IF lo > hi THEN s
    ELSE IF lo = hi THEN ParseStep(line, lo, s)
    ELSE LET mid  == (lo + hi) \div 2
             half == ParseLoop(line, lo, mid, s)
         IN IF half.skip
              THEN ParseLoop(line, mid + 2, hi, [half EXCEPT !.skip = FALSE])
              ELSE ParseLoop(line, mid + 1, hi, half)

\* Helper function to parse CSV line with proper quote handling.
parseCSVLine(line) ==
    LET s == ParseLoop(line, 1, Len(line),
                       [result |-> <<>>, current |-> <<>>, inQuotes |-> FALSE, skip |-> FALSE])
    IN Append(s.result, s.current)

\* values[i] || '' (i counted from 0, as in the source)
ValueOr(values, i, default) ==
    IF i + 1 <= Len(values) /\ values[i + 1] # <<>> THEN values[i + 1] ELSE default

\* The lines that are not blank, the first of them (the header) dropped, each
\* of the others parsed; rows without site, username or password are dropped.
parsePasswordsFromCSV(csvContent) ==
    LET NotBlank(line) == Trim(line) # <<>>
        lines     == SelectSeq(Split(csvContent, LineFeed), NotBlank)
        dataLines == Tail(lines)
        Parsed(line) ==
            LET values == parseCSVLine(line)
            IN [site |-> ValueOr(values, 0, <<>>),
                username |-> ValueOr(values, 1, <<>>),
                password |-> ValueOr(values, 2, <<>>),
                notes |-> ValueOr(values, 3, Undefined),
                tags |-> IF ValueOr(values, 4, <<>>) # <<>>
                           THEN SelectSeq(Split(values[5], Semicolon), NotBlank)
                           ELSE Undefined]
        Complete(password) ==
            password.site # <<>> /\ password.username # <<>> /\ password.password # <<>>
    IN IF Len(lines) < 2 THEN <<>>
       ELSE SelectSeq([i \in 1 .. Len(dataLines) |-> Parsed(dataLines[i])], Complete)

\* ----------------------------------------------------------------- state

VARIABLES
    clock,          \* the server's wall clock (ms)
    db,             \* the users table: account name -> row
    inflight,       \* the handlers that are running: a bag of their locals
    limit,          \* how many handlers the server runs at the same time
    sent,           \* the response sent last
    failedChecks,   \* history: wrong-password comparisons per account since its last success
    tierArg,        \* SpecTier: the argument of getLockoutDuration
    tierResult,     \* SpecTier: the value it returned
    salt,           \* SpecCrypto: the salt of the calls of encrypt
    calls,          \* SpecCrypto: the calls of encrypt made so far
    dec,            \* SpecCrypto: the last call of decrypt
    entries,        \* SpecVault: the password_entries table: id -> row
    written,        \* SpecVault, history: id -> the plaintexts written last
    reply,          \* SpecVault: the response of the passwords router sent last
    tags,           \* SpecStore: the tags table: id -> row
    links,          \* SpecStore: the password_entry_tags table: pairs <<entry id, tag id>>
    serial,         \* SpecStore: how many ids were issued for tags and for entries
    passwords,      \* SpecCsv: the entries handed to exportPasswordsToCSV
    imported        \* SpecCsv: what parsePasswordsFromCSV returned for the export

\* The variables of the calls of encrypt and decrypt.
cryptoVars == <<salt, calls, dec>>

\* The variables of the passwords router.
vaultVars == <<entries, written, reply>>

\* The tables of the tags router.
storeVars == <<tags, links, serial>>

\* The variables of the calls of the CSV functions.
csvVars == <<passwords, imported>>

vars ==
    <<clock, db, inflight, limit, sent, failedChecks, tierArg, tierResult, cryptoVars,
      vaultVars, storeVars, csvVars>>

\* The throttle columns of a new row: the baseline state, no failure and no lock.
ThrottleDefaults == [loginAttempts |-> 0, lockedUntil |-> Null, lastFailedLogin |-> Null]

\* A freshly created account row: the hashed password and the column defaults.
NewUser(u) ==
    [password |-> Hash(PasswordOf(u)), loginAttempts |-> ThrottleDefaults.loginAttempts,
     lockedUntil |-> ThrottleDefaults.lockedUntil,
     lastFailedLogin |-> ThrottleDefaults.lastFailedLogin]

\* A response: the HTTP status, which error message it carries, and the fields of
\* the JSON body the throttle sets (Null: the field is absent).
Response(status, error, attempts, remainingSeconds, attemptsRemaining, lockedUntil, previous) ==
    [status |-> status, error |-> error, attempts |-> attempts,
     remainingSeconds |-> remainingSeconds, attemptsRemaining |-> attemptsRemaining,
     lockedUntil |-> lockedUntil, previousFailedAttempts |-> previous]

NoResponse == Response(Null, "", Null, Null, Null, Null, Null)

\* The columns of a users row that the login handler reads.
Row(user) ==
    [password |-> user.password, loginAttempts |-> user.loginAttempts,
     lockedUntil |-> user.lockedUntil]

\* The handlers in flight, and the bag with q added / removed.
Running == BagToSet(inflight)

Started(q) == inflight (+) SetToBag({q})

Finished(q) == inflight (-) SetToBag({q})

\* The handlers at pc for the account u, before and after a step.
At(pc, u) == {q \in Running : q.pc = pc /\ q.name = u}

AtNext(pc, u) == {q \in BagToSet(inflight') : q.pc = pc /\ q.name = u}

\* The history variable failedChecks, kept while requests are processed one at a
\* time: a password comparison that fails adds one, a recorded success clears it.
History ==
    failedChecks' = [u \in Users |->
        IF limit # 1 THEN failedChecks[u]
        ELSE IF At("valid", u) # {} /\ AtNext("valid", u) = {} THEN 0
        ELSE IF At("invalid", u) = {} /\ AtNext("invalid", u) # {} THEN failedChecks[u] + 1
        ELSE failedChecks[u]]

\* No response of the passwords router has been sent.
NoReply == [endpoint |-> "", caller |-> "", status |-> Null, body |-> <<>>]

\* No call of decrypt has been made.
NoDecrypt == [data |-> <<>>, salt |-> <<>>, result |-> [threw |-> FALSE, value |-> Undefined]]

\* parsePasswordsFromCSV has not been called.
NotImported == [done |-> FALSE, value |-> <<>>]

\* The state after the accounts were created; the server runs up to n handlers.
StartLogin(n, arg) ==
    /\ clock = 0
    /\ db = [u \in Users |-> NewUser(u)]
    /\ inflight = EmptyBag
    /\ limit = n
    /\ sent = NoResponse
    /\ failedChecks = [u \in Users |-> 0]
    /\ tierArg = arg
    /\ tierResult = Null
    /\ entries = <<>>
    /\ written = <<>>
    /\ reply = NoReply
    /\ tags = <<>>
    /\ links = {}
    /\ serial = [tag |-> 0, entry |-> 0]
    /\ imported = NotImported

\* ... and no call of encrypt or decrypt is being looked at.
Start(n, arg) ==
    /\ StartLogin(n, arg)
    /\ salt = <<>>
    /\ calls = <<>>
    /\ dec = NoDecrypt
    /\ passwords = <<>>

Init == Start(NumReqs, 0)

InitSeq == Start(1, 0)

InitTier == \E arg \in 0 .. MaxArg : Start(0, arg)

\* The texts encrypt is applied to: the empty string, 'a', ':' with U+00E9 (two
\* bytes in UTF-8) and U+20AC (three bytes), an unpaired surrogate U+D800, and
\* 16 characters (a whole block).
Plaintexts ==
    {<<>>, <<97>>, <<Colon, 233, 8364>>, <<55296>>, [i \in 1 .. BlockBytes |-> 97]}

\* The salts: those generateSalt may return, and the empty string.
Salts == {generateSalt(r) : r \in RandomBytes(IvBytes)} \cup {<<>>}

\* The calls of encrypt and decrypt alone, for a salt chosen at the start.
InitCrypto ==
    /\ StartLogin(0, 0)
    /\ salt \in Salts
    /\ calls = <<>>
    /\ dec = NoDecrypt
    /\ passwords = <<>>

\* The strings of at most MaxField characters over 'a', '"' and ','.
RECURSIVE FieldsOfLen(_)
FieldsOfLen(n) ==
    IF n = 0 THEN {<<>>}
    ELSE {Append(text, c) : text \in FieldsOfLen(n - 1), c \in {97, Quote, Comma}}

Fields == UNION {FieldsOfLen(n) : n \in 1 .. MaxField}

\* The lists exported: one entry with any three fields, alone, before and after
\* an entry without special characters.
CsvInputs ==
    LET plain == PasswordEntry(<<97>>, <<97>>, <<97>>)
        any   == {PasswordEntry(s, u, p) : s \in Fields, u \in Fields, p \in Fields}
    IN {<<e>> : e \in any} \cup {<<e, plain>> : e \in any} \cup {<<plain, e>> : e \in any}

\* The CSV functions alone, for a list of entries chosen at the start.
InitCsv ==
    /\ StartLogin(0, 0)
    /\ salt = <<>>
    /\ calls = <<>>
    /\ dec = NoDecrypt
    /\ passwords \in CsvInputs

\* --------------------------------------------------------------- actions

\* Time passes: the wall clock advances by d ms.
Tick(d) ==
    /\ clock + d <= (IF limit = 1 THEN HorizonSeq ELSE Horizon) * LOCKOUT_DURATIONS[3]
    /\ clock' = clock + d
    /\ UNCHANGED <<db, inflight, limit, sent, failedChecks, tierArg, tierResult, cryptoVars, vaultVars, storeVars, csvVars>>

\* Mutant: a rejected body is recorded as a failure on every account.
LoginRejectRecorded(name, password) ==
    /\ ~LoginSchemaOk(name, password)
    /\ sent' = Response(400, "Validation failed", Null, Null, Null, Null, Null)
    /\ db' = [u \in Users |-> [db[u] EXCEPT !.lastFailedLogin = clock]]
    /\ UNCHANGED <<clock, inflight, limit, failedChecks, tierArg, tierResult, cryptoVars, vaultVars, storeVars, csvVars>>

\* The body fails loginSchema: 400, nothing is read or written.
LoginReject(name, password) ==
    /\ ~LoginSchemaOk(name, password)
    /\ sent' = Response(400, "Validation failed", Null, Null, Null, Null, Null)
    /\ UNCHANGED <<clock, db, inflight, limit, failedChecks, tierArg, tierResult, cryptoVars, vaultVars, storeVars, csvVars>>

\* prisma.user.findUnique({where: {name}}); 401 when there is no such user.
\* At most limit handlers run at the same time.
LoginFind(name, password) ==
    /\ BagCardinality(inflight) < limit
    /\ LoginSchemaOk(name, password)
    /\ IF name \in Users
         THEN /\ inflight' = Started([pc |-> "found", name |-> name, password |-> password,
                                      user |-> Row(db[name]), now |-> Null])
              /\ UNCHANGED sent
         ELSE /\ sent' = Response(401, "Invalid credentials", Null, Null, Null, Null, Null)
              /\ UNCHANGED inflight
    /\ UNCHANGED <<clock, db, limit, tierArg, tierResult, cryptoVars, vaultVars, storeVars, csvVars>>
    /\ History

\* now = new Date(); the lockout gate (423 while locked); then bcrypt.compare.
LoginCheck(q) ==
    /\ q \in Running
    /\ q.pc = "found"
    /\ LET user == q.user
           now  == clock
       IN IF IsLockedOut(user, now)
            THEN /\ inflight' = Finished(q)
                 /\ sent' = Response(423, "Account temporarily locked", user.loginAttempts,
                                     Ceil(user.lockedUntil - now, 1000), Null,
                                     user.lockedUntil, Null)
            ELSE LET isValidPassword == BcryptCompare(q.password, user.password)
                 IN /\ inflight' = Finished(q) (+) SetToBag({
                           [q EXCEPT !.pc = IF isValidPassword THEN "valid" ELSE "invalid",
                                     !.now = now]})
                    /\ UNCHANGED sent
    /\ UNCHANGED <<clock, db, limit, tierArg, tierResult, cryptoVars, vaultVars, storeVars, csvVars>>
    /\ History

\* Mutant: the counter starts again once a lock has expired.
NewAttemptsRestart(user) == IF user.lockedUntil # Null THEN 1 ELSE user.loginAttempts + 1

\* const newAttempts = user.loginAttempts + 1
NewAttempts(user) == user.loginAttempts + 1

\* Mutant: the duration is looked up for the count before the increment.
FailedRowOldCount(row, user, now) ==
    LET lockoutDuration == getLockoutDuration(user.loginAttempts)
    IN [row EXCEPT !.loginAttempts = NewAttempts(user),
                   !.lastFailedLogin = now,
                   !.lockedUntil = IF lockoutDuration > 0 THEN now + lockoutDuration ELSE @]

\* The row after prisma.user.update with updateData: the read count plus one, the
\* time of the failure, and lockedUntil only when a threshold is reached (the
\* column keeps its value otherwise).
FailedRow(row, user, now) ==
    LET lockoutDuration == getLockoutDuration(NewAttempts(user))
    IN [row EXCEPT !.loginAttempts = NewAttempts(user),
                   !.lastFailedLogin = now,
                   !.lockedUntil = IF lockoutDuration > 0 THEN now + lockoutDuration ELSE @]

\* Mutant: the success leaves the lock in place.
ClearedRowKeepsLock(row) ==
    [row EXCEPT !.loginAttempts = 0, !.lastFailedLogin = Null]

\* The row after the update of a successful login.
ClearedRow(row) ==
    [row EXCEPT !.loginAttempts = 0, !.lockedUntil = Null, !.lastFailedLogin = Null]

\* The password was wrong: prisma.user.update with the incremented count (and the
\* lock when a threshold is reached), then 423 or 401.
LoginFail(q) ==
    /\ q \in Running
    /\ q.pc = "invalid"
    /\ LET user            == q.user
           now             == q.now
           newAttempts     == NewAttempts(user)
           lockoutDuration == getLockoutDuration(newAttempts)
       IN /\ db' = [db EXCEPT ![q.name] = FailedRow(@, user, now)]
          /\ sent' = IF lockoutDuration > 0
                       THEN Response(423, "Account locked", newAttempts,
                                     Ceil(lockoutDuration, 1000), Null,
                                     now + lockoutDuration, Null)
                       ELSE Response(401, "Invalid credentials", newAttempts, Null,
                                     Max(0, 3 - newAttempts), Null, Null)
    /\ inflight' = Finished(q)
    /\ UNCHANGED <<clock, limit, tierArg, tierResult, cryptoVars, vaultVars, storeVars, csvVars>>
    /\ History

\* The password was right: prisma.user.update clears the throttle state, then 200.
LoginSucceed(q) ==
    /\ q \in Running
    /\ q.pc = "valid"
    /\ LET user           == q.user
           failedAttempts == IF user.loginAttempts >= 3 THEN user.loginAttempts ELSE 0
       IN /\ db' = [db EXCEPT ![q.name] = ClearedRow(@)]
          /\ sent' = Response(200, "", Null, Null, Null, Null,
                              IF failedAttempts >= 3 THEN failedAttempts ELSE Null)
    /\ inflight' = Finished(q)
    /\ UNCHANGED <<clock, limit, tierArg, tierResult, cryptoVars, vaultVars, storeVars, csvVars>>
    /\ History

\* getLockoutDuration is applied to the argument chosen.
TierCall ==
    /\ tierResult = Null
    /\ tierResult' = getLockoutDuration(tierArg)
    /\ UNCHANGED <<clock, db, inflight, limit, sent, failedChecks, tierArg, cryptoVars, vaultVars, storeVars, csvVars>>

\* Another argument is chosen.
TierPick(arg) ==
    /\ tierResult # Null
    /\ tierArg' = arg
    /\ tierResult' = Null
    /\ UNCHANGED <<clock, db, inflight, limit, sent, failedChecks, cryptoVars, vaultVars, storeVars, csvVars>>

\* encrypt(text, salt) is called; crypto.randomBytes(16) would return random.
\* The call is recorded with the buffers it drew and with what it returned.
EncryptCall(text, random) ==
    /\ Len(calls) < MaxCalls
    /\ dec = NoDecrypt
    /\ LET r == encrypt(text, salt, <<random>>)
       IN calls' = Append(calls, [text |-> text, out |-> r.out,
                                  drawn |-> SubSeq(<<random>>, 1, 1 - Len(r.random))])
    /\ UNCHANGED <<clock, db, inflight, limit, sent, failedChecks, tierArg, tierResult,
                   salt, dec, vaultVars, storeVars, csvVars>>

\* The strings decrypt is applied to besides what encrypt returned: the last out
\* without its ':', with an empty side, with a third part, with an empty part in
\* the middle, with a character that is no hex digit in the IV or at the end,
\* without its first or its last byte, and short strings.
Damaged(out) ==
    LET k     == CHOOSE i \in 1 .. Len(out) : out[i] = Colon
        ivHex == SubSeq(out, 1, k - 1)
        data  == SubSeq(out, k + 1, Len(out))
    IN {ivHex \o data, ivHex \o <<Colon>>, <<Colon>> \o data,
        out \o <<Colon, 97, 98>>, ivHex \o <<Colon, Colon>> \o data,
        <<122>> \o Tail(out), SubSeq(out, 1, Len(out) - 1) \o <<122>>,
        Tail(Tail(out)), SubSeq(out, 1, Len(out) - 2)}

DecryptInputs ==
    {<<>>, <<Colon>>, <<97>>, <<122, 122>>, <<97, 98, Colon, 99, 100>>}
      \cup {calls[i].out : i \in 1 .. Len(calls)}
      \cup UNION {Damaged(calls[i].out) : i \in {j \in {Len(calls)} : j > 0 /\ calls[j].out # <<>>}}

\* decrypt(encryptedData, s) is called, once in a behaviour.
DecryptCall(encryptedData, s) ==
    /\ dec = NoDecrypt
    /\ dec' = [data |-> encryptedData, salt |-> s, result |-> decrypt(encryptedData, s)]
    /\ UNCHANGED <<clock, db, inflight, limit, sent, failedChecks, tierArg, tierResult,
                   salt, calls, vaultVars, storeVars, csvVars>>

\* The handlers of the passwords router. A handler is taken as one step: the
\* only thing it reads before an await and uses after it is the salt of
\* existingEntry, which no request writes.

\* The callers: authenticate has put the user of the token in req.user.
Callers == Users

\* The buffers crypto.randomBytes returns to a request: the salt (create only)
\* and the IVs of the password and of the notes, drawn only for a text that is
\* encrypted.
Randoms(withSalt, password, notes) ==
    LET any  == RandomBytes(IvBytes)
        none == {<<>>}
    IN (IF withSalt THEN any ELSE none)
         \X (IF Falsy(password) THEN none ELSE any)
         \X (IF Falsy(notes) THEN none ELSE any)

\* The entry of the user with this site and username, other than the entry not.
Duplicates(userId, site, username, not) ==
    {id \in DOMAIN entries \ {not} :
        /\ entries[id].userId = userId
        /\ entries[id].site = site
        /\ entries[id].username = username}

\* The code units of the sites and usernames of the model.
CodeUnits(name) ==
    CASE name = "a.example" -> <<97, 46, 101, 120, 97, 109, 112, 108, 101>>
      [] name = "b.example" -> <<98, 46, 101, 120, 97, 109, 112, 108, 101>>
      [] name = "c.example" -> <<99, 46, 101, 120, 97, 109, 112, 108, 101>>
      [] name = "joe" -> <<106, 111, 101>>
      [] OTHER -> <<>>

\* String.prototype.toLowerCase, for the characters below 256.
ToLowerCase(text) ==
    [i \in 1 .. Len(text) |->
        IF text[i] \in 65 .. 90 \/ (text[i] \in 192 .. 222 /\ text[i] # 215)
          THEN text[i] + 32 ELSE text[i]]

\* String.prototype.includes
Includes(text, part) ==
    \E i \in 0 .. Len(text) - Len(part) : SubSeq(text, i + 1, i + Len(part)) = part

\* whereClause.OR: site or username contains the query, mode: 'insensitive'.
WhereContains(entry, query) ==
    \/ Includes(ToLowerCase(CodeUnits(entry.site)), ToLowerCase(query))
    \/ Includes(ToLowerCase(CodeUnits(entry.username)), ToLowerCase(query))

\* The query strings: none, a blank, ' JO', 'E-acute' in upper case, 'z'.
Queries == {Undefined, <<32>>, <<32, 74, 79>>, <<201>>, <<122>>}

\* What the request writes to a column: the text, or NULL for '' and for none.
Stored(text) == IF Falsy(text) THEN DbNull ELSE text

\* POST /api/passwords
PasswordCreate(userId, site, username, password, notes) ==
    /\ IF ~CreateSchemaOk(site, username)
         THEN /\ reply' = Reply("create", userId, 400, [error |-> "Validation failed"])
              /\ UNCHANGED <<entries, written>>
       ELSE IF Duplicates(userId, site, username, 0) # {}
         THEN /\ reply' = Reply("create", userId, 400, [error |-> "Password entry already exists"])
              /\ UNCHANGED <<entries, written>>
       ELSE \E random \in Randoms(TRUE, password, notes) :
               LET id            == Cardinality(DOMAIN entries) + 1
                   passwordEntry == entries'[id]
               IN /\ id <= MaxEntries
                  /\ entries' = entries @@
                        (id :> CreatedRow(id, userId, site, username, password, notes, random))
                  /\ written' = written @@ (id :> [password |-> Stored(password),
                                                   notes |-> Stored(notes)])
                  /\ reply' = IF DecryptOrNull(passwordEntry.password, passwordEntry.salt).threw
                                THEN InternalError("create", userId)
                                ELSE Reply("create", userId, 201,
                                           WithWarnings([passwordEntry |-> decryptedEntry(passwordEntry)],
                                                        password))
    /\ UNCHANGED <<clock, db, inflight, limit, sent, failedChecks, tierArg, tierResult,
                   cryptoVars, storeVars, csvVars>>

\* PUT /api/passwords/:id
PasswordUpdate(userId, id, site, username, password, notes) ==
    /\ IF ~UpdateSchemaOk(site, username)
         THEN /\ reply' = Reply("update", userId, 400, [error |-> "Validation failed"])
              /\ UNCHANGED <<entries, written>>
       ELSE IF id \notin DOMAIN entries \/ entries[id].userId # userId
         THEN /\ reply' = Reply("update", userId, 404, [error |-> "Password entry not found"])
              /\ UNCHANGED <<entries, written>>
       ELSE LET existingEntry == entries[id]
                newSite       == IF site = Absent THEN existingEntry.site ELSE site
                newUsername   == IF username = Absent THEN existingEntry.username ELSE username
            IN IF (site # Absent \/ username # Absent)
                    /\ Duplicates(userId, newSite, newUsername, id) # {}
                 THEN /\ reply' = Reply("update", userId, 400,
                                        [error |-> "Password entry already exists"])
                      /\ UNCHANGED <<entries, written>>
                 ELSE \E random \in Randoms(FALSE, password, notes) :
                   LET updatedEntry == entries'[id]
                   IN /\ entries' = [entries EXCEPT ![id] =
                            UpdatedRow(existingEntry, site, username, password, notes, random)]
                      /\ written' = [written EXCEPT ![id] =
                            [password |-> IF password = Undefined THEN @.password
                                          ELSE Stored(password),
                             notes |-> IF notes = Undefined THEN @.notes ELSE Stored(notes)]]
                      /\ reply' = IF DecryptOrNull(updatedEntry.password, updatedEntry.salt).threw
                                    THEN InternalError("update", userId)
                                    ELSE Reply("update", userId, 200,
                                               WithWarnings([passwordEntry |-> decryptedEntry(updatedEntry)],
                                                            password))
    /\ UNCHANGED <<clock, db, inflight, limit, sent, failedChecks, tierArg, tierResult,
                   cryptoVars, storeVars, csvVars>>

\* GET /api/passwords?query=... (no tag filter, no more entries than the limit):
\* the rows of the caller that the where clause selects, each with its password
\* decrypted; with a query, a row with notes stays only if site, username or
\* decrypted notes match. The reply is kept with the query it answers.
PasswordList(userId, query) ==
    /\ LET search          == ~Falsy(query) /\ ~Falsy(Trim(query))
           passwordEntries == {entries[id] : id \in {i \in DOMAIN entries :
                                  /\ entries[i].userId = userId
                                  /\ search => WhereContains(entries[i], Trim(query))}}
           Threw(entry) ==
               \/ DecryptOrNull(entry.password, entry.salt).threw
               \/ search /\ entry.notes # DbNull /\ decrypt(entry.notes, entry.salt).threw
           Kept(entry) ==
               (search /\ entry.notes # DbNull)
               => LET queryLower   == ToLowerCase(Trim(query))
                      matchesNotes == Includes(ToLowerCase(decrypt(entry.notes, entry.salt).value),
                                               queryLower)
                      matchesSite  == Includes(ToLowerCase(CodeUnits(entry.site)), queryLower)
                      matchesUsername == Includes(ToLowerCase(CodeUnits(entry.username)),
                                                  queryLower)
                  IN matchesSite \/ matchesUsername \/ matchesNotes
       IN reply' = [query |-> query] @@
                   (IF \E entry \in passwordEntries : Threw(entry)
                      THEN InternalError("list", userId)
                      ELSE Reply("list", userId, 200,
                                 [entries |-> {decryptedEntry(entry) :
                                                  entry \in {e \in passwordEntries : Kept(e)}},
                                  pagination |-> [total |-> Cardinality(passwordEntries)]]))
    /\ UNCHANGED <<clock, db, inflight, limit, sent, failedChecks, tierArg, tierResult,
                   cryptoVars, entries, written, storeVars, csvVars>>

\* GET /api/passwords/:id
PasswordGet(userId, id) ==
    /\ IF id \notin DOMAIN entries \/ entries[id].userId # userId
         THEN reply' = Reply("get", userId, 404, [error |-> "Password entry not found"])
       ELSE LET passwordEntry == entries[id]
            IN reply' = IF DecryptOrNull(passwordEntry.password, passwordEntry.salt).threw
                          THEN InternalError("get", userId)
                          ELSE Reply("get", userId, 200, decryptedEntry(passwordEntry))
    /\ UNCHANGED <<clock, db, inflight, limit, sent, failedChecks, tierArg, tierResult,
                   cryptoVars, entries, written, storeVars, csvVars>>

\* GET /api/passwords/:id/notes
PasswordNotes(userId, id) ==
    /\ IF id \notin DOMAIN entries \/ entries[id].userId # userId
         THEN reply' = Reply("notes", userId, 404, [error |-> "Password entry not found"])
       ELSE LET passwordEntry  == entries[id]
                decryptedNotes == DecryptOrNull(passwordEntry.notes, passwordEntry.salt)
            IN reply' = IF decryptedNotes.threw
                          THEN InternalError("notes", userId)
                          ELSE Reply("notes", userId, 200,
                                     [id |-> passwordEntry.id, notes |-> decryptedNotes.value])
    /\ UNCHANGED <<clock, db, inflight, limit, sent, failedChecks, tierArg, tierResult,
                   cryptoVars, entries, written, storeVars, csvVars>>

\* The list is exported and the export is parsed.
CsvRoundTrip ==
    /\ ~imported.done
    /\ imported' = [done |-> TRUE, value |-> parsePasswordsFromCSV(exportPasswordsToCSV(passwords))]
    /\ UNCHANGED <<clock, db, inflight, limit, sent, failedChecks, tierArg, tierResult,
                   cryptoVars, vaultVars, storeVars, passwords>>

\* ------------------------------------------------- the database schema

\* The login and tier variables, which the other routers leave alone.
throttleVars == <<clock, sent, failedChecks, tierArg, tierResult>>

\* A users row with its isAdmin column.
Account(u, isAdmin) == NewUser(u) @@ [isAdmin |-> isAdmin]

\* A table without the rows of the keys.
Without(table, keys) == [k \in DOMAIN table \ keys |-> table[k]]

\* CREATE UNIQUE INDEX tags_name_userId_key
UniqueTags(table) ==
    \A a, b \in DOMAIN table :
        a # b => <<table[a].name, table[a].userId>> # <<table[b].name, table[b].userId>>

\* Mutant: the tables without the index on site, username and userId.
NoUniqueEntries(table) == TRUE

\* CREATE UNIQUE INDEX password_entries_site_username_userId_key
UniqueEntries(table) ==
    \A a, b \in DOMAIN table :
        a # b => <<table[a].site, table[a].username, table[a].userId>>
                 # <<table[b].site, table[b].username, table[b].userId>>

\* Mutant: only the users row is deleted.
DeletedUserNoCascade(user) ==
    [users |-> Without(db, {user}), tags |-> tags, entries |-> entries, links |-> links]

\* The tables after the users row is deleted: ON DELETE CASCADE removes the tags
\* and the entries of the user, and the links of those tags and entries.
DeletedUser(user) ==
    LET goneTags    == {t \in DOMAIN tags : tags[t].userId = user}
        goneEntries == {e \in DOMAIN entries : entries[e].userId = user}
    IN [users |-> Without(db, {user}),
        tags |-> Without(tags, goneTags),
        entries |-> Without(entries, goneEntries),
        links |-> {l \in links : l[1] \notin goneEntries /\ l[2] \notin goneTags}]

\* The links after a tags row is deleted.
DeletedTag(id) == {l \in links : l[2] # id}

\* The links after a password_entries row is deleted.
DeletedEntry(id) == {l \in links : l[1] # id}

\* ----------------------------------------------------- routes/tags.ts

\* The handlers of the tags router are taken as one step each; like every
\* request, one begins only while fewer than limit requests are being handled.

\* prisma/seed.ts: the sample tag 'Work' of the super user.
sampleTags(superUser) == 1 :> [id |-> 1, name |-> <<87, 111, 114, 107>>, userId |-> superUser]

\* The names sent for a tag: none, '', 'WORK', 'work' and 'x'.
TagNames == {Undefined, <<>>, <<87, 79, 82, 75>>, <<119, 111, 114, 107>>, <<120>>}

\* name.toLowerCase()
LowerName(name) == ToLowerCase(name)

\* prisma.tag.findUnique({ where: { name_userId: { name, userId } } })
TagNamed(name, userId) ==
    {id \in DOMAIN tags : tags[id].name = name /\ tags[id].userId = userId}

\* POST /api/tags
TagCreate(userId, name) ==
    /\ BagCardinality(inflight) < limit
    /\ IF Falsy(name)
         THEN /\ reply' = Reply("tagCreate", userId, 400, [error |-> "Validation failed"])
              /\ UNCHANGED <<tags, serial>>
       ELSE IF TagNamed(LowerName(name), userId) # {}
         THEN /\ reply' = Reply("tagCreate", userId, 400,
                                [error |-> "Tag with this name already exists"])
              /\ UNCHANGED <<tags, serial>>
       ELSE LET id      == serial.tag + 1
                created == tags @@ (id :> [id |-> id, name |-> LowerName(name), userId |-> userId])
            IN /\ id <= MaxTags
               /\ IF userId \in DOMAIN db /\ UniqueTags(created)
                    THEN /\ tags' = created
                         /\ serial' = [serial EXCEPT !.tag = id]
                         /\ reply' = Reply("tagCreate", userId, 201, created[id])
                    ELSE /\ reply' = InternalError("tagCreate", userId)
                         /\ UNCHANGED <<tags, serial>>
    /\ UNCHANGED <<throttleVars, db, inflight, limit, cryptoVars, csvVars, entries, written, links>>

\* PUT /api/tags/:id
TagUpdate(userId, id, name) ==
    /\ BagCardinality(inflight) < limit
    /\ IF name = <<>>
         THEN /\ reply' = Reply("tagUpdate", userId, 400, [error |-> "Validation failed"])
              /\ UNCHANGED tags
       ELSE IF id \notin DOMAIN tags \/ tags[id].userId # userId
         THEN /\ reply' = Reply("tagUpdate", userId, 404, [error |-> "Tag not found"])
              /\ UNCHANGED tags
       ELSE LET existingTag == tags[id]
            IN IF /\ ~Falsy(name)
                  /\ LowerName(name) # existingTag.name
                  /\ TagNamed(LowerName(name), userId) # {}
                 THEN /\ reply' = Reply("tagUpdate", userId, 400,
                                        [error |-> "Tag with this name already exists"])
                      /\ UNCHANGED tags
                 ELSE LET updated == [tags EXCEPT ![id].name =
                                         IF ~Falsy(name) THEN LowerName(name) ELSE @]
                      IN IF UniqueTags(updated)
                           THEN /\ tags' = updated
                                /\ reply' = Reply("tagUpdate", userId, 200, updated[id])
                           ELSE /\ reply' = InternalError("tagUpdate", userId)
                                /\ UNCHANGED tags
    /\ UNCHANGED <<throttleVars, db, inflight, limit, cryptoVars, csvVars, entries, written,
                   links, serial>>

\* DELETE /api/tags/:id
TagDelete(userId, id) ==
    /\ BagCardinality(inflight) < limit
    /\ IF id \notin DOMAIN tags \/ tags[id].userId # userId
         THEN /\ reply' = Reply("tagDelete", userId, 404, [error |-> "Tag not found"])
              /\ UNCHANGED <<tags, links>>
         ELSE /\ tags' = Without(tags, {id})
              /\ links' = DeletedTag(id)
              /\ reply' = Reply("tagDelete", userId, 200, [message |-> "Tag deleted successfully"])
    /\ UNCHANGED <<throttleVars, db, inflight, limit, cryptoVars, csvVars, entries, written,
                   serial>>

\* ----------------------------------------------------- routes/users.ts

\* authenticate, requireAdmin: the caller has an account and it is an admin's.
RequireAdmin(caller) == caller \in DOMAIN db /\ db[caller].isAdmin

\* include: { _count: { select: { tags: true, passwordEntries: true } } }
UserCount(id) ==
    [tags |-> Cardinality({t \in DOMAIN tags : tags[t].userId = id}),
     passwordEntries |-> Cardinality({e \in DOMAIN entries : entries[e].userId = id})]

\* A handler of the users router that waits for its write, with the counts
\* that DELETE reads with the user.
UserHandler(route, caller, id, isAdmin) ==
    [pc |-> "write", route |-> route, userId |-> caller, user |-> id, isAdmin |-> isAdmin,
     count |-> IF route = "userDelete" THEN UserCount(id) ELSE [tags |-> 0, passwordEntries |-> 0]]

\* The checks that PUT and DELETE /api/users/:id make before they write.
UserBegin(route, caller, id, isAdmin, own) ==
    /\ BagCardinality(inflight) < limit
    /\ IF ~RequireAdmin(caller)
         THEN /\ reply' = Reply(route, caller, 403, [error |-> "Admin access required"])
              /\ UNCHANGED inflight
       ELSE IF id \notin DOMAIN db
         THEN /\ reply' = Reply(route, caller, 404, [error |-> "User not found"])
              /\ UNCHANGED inflight
       ELSE IF id = caller
         THEN /\ reply' = Reply(route, caller, 403, [error |-> own])
              /\ UNCHANGED inflight
       ELSE /\ inflight' = Started(UserHandler(route, caller, id, isAdmin))
            /\ UNCHANGED reply
    /\ UNCHANGED <<throttleVars, db, limit, cryptoVars, csvVars, entries, written, storeVars>>

\* PUT /api/users/:id { isAdmin }: up to prisma.user.findUnique and the check
\* that the caller does not change their own admin status.
UserUpdateBegin(caller, id, isAdmin) ==
    UserBegin("userUpdate", caller, id, isAdmin, "Cannot modify your own admin status")

\* ... and its prisma.user.update.
UserUpdateWrite(h) ==
    /\ h \in Running
    /\ h.route = "userUpdate"
    /\ inflight' = Finished(h)
    /\ IF h.user \in DOMAIN db
         THEN /\ db' = [db EXCEPT ![h.user].isAdmin = h.isAdmin]
              /\ reply' = Reply(h.route, h.userId, 200, [name |-> h.user, isAdmin |-> h.isAdmin])
         ELSE /\ reply' = InternalError(h.route, h.userId)
              /\ UNCHANGED db
    /\ UNCHANGED <<throttleVars, limit, cryptoVars, csvVars, entries, written, storeVars>>

\* DELETE /api/users/:id: up to prisma.user.findUnique and the check that the
\* caller does not delete their own account.
UserDeleteBegin(caller, id) ==
    UserBegin("userDelete", caller, id, FALSE, "Cannot delete your own account")

\* ... and its prisma.user.delete, with the cascade of the schema.
UserDeleteWrite(h) ==
    /\ h \in Running
    /\ h.route = "userDelete"
    /\ inflight' = Finished(h)
    /\ IF h.user \in DOMAIN db
         THEN LET deleted == DeletedUser(h.user)
              IN /\ db' = deleted.users
                 /\ tags' = deleted.tags
                 /\ entries' = deleted.entries
                 /\ links' = deleted.links
                 /\ reply' = Reply(h.route, h.userId, 200,
                                   [message |-> "User deleted successfully",
                                    deletedData |-> [user |-> h.user] @@ h.count])
         ELSE /\ reply' = InternalError(h.route, h.userId)
              /\ UNCHANGED <<db, tags, entries, links>>
    /\ UNCHANGED <<throttleVars, limit, cryptoVars, csvVars, written, serial>>

\* ----------------------------- routes/passwords.ts, await by await

\* The requests on password entries in SpecStore: two sites, one text for the
\* password and the notes of a new entry and another one for an update.
StoreSites == {SiteNames[i] : i \in 1 .. MaxRows}

\* The lists of tag ids of the requests.
TagIdLists == {Undefined, <<>>, <<1>>, <<1, 1>>, <<1, 2>>}

\* The bodies of the PUT requests of SpecStore: a new password, new notes or a
\* new list of tags.
UpdateBodies ==
    {[password |-> <<98>>, notes |-> Undefined, tagIds |-> Undefined],
     [password |-> Undefined, notes |-> <<98>>, tagIds |-> Undefined]}
    \cup {[password |-> Undefined, notes |-> Undefined, tagIds |-> tagIds] :
             tagIds \in TagIdLists \ {Undefined}}

\* The buffers crypto.randomBytes returns to a request of SpecStore and
\* SpecRace: one choice for each call.
StoreRandoms(withSalt, password, notes) ==
    {CHOOSE random \in Randoms(withSalt, password, notes) : TRUE}

\* tagIds: z.array(z.string()).optional().default([])
DefaultTagIds(tagIds) == IF tagIds = Undefined THEN <<>> ELSE tagIds

\* A handler of the passwords router between two of its awaits.
EntryHandler(pc, route, userId, id, site, username, password, notes, tagIds) ==
    [pc |-> pc, route |-> route, userId |-> userId, id |-> id, site |-> site,
     username |-> username, password |-> password, notes |-> notes, tagIds |-> tagIds,
     newSite |-> site, newUsername |-> username]

\* The handler h at its next await.
Awaiting(h, pc) == Finished(h) (+) SetToBag({[h EXCEPT !.pc = pc]})

\* The POST handlers that have not written yet.
Creating ==
    BagCardinality([h \in {x \in Running : x.route = "create"} |-> inflight[h]])

\* if (tagIds && tagIds.length > 0): the handler asks for the tags of the caller.
ChecksTags(tagIds) == tagIds # Undefined /\ Len(tagIds) > 0

\* Mutant: the tags are looked up by id only.
anyTags(tagIds, userId) ==
    {t \in DOMAIN tags : \E i \in DOMAIN tagIds : tagIds[i] = t}

\* prisma.tag.findMany({ where: { id: { in: tagIds }, userId } })
userTags(tagIds, userId) ==
    {t \in DOMAIN tags : tags[t].userId = userId /\ \E i \in DOMAIN tagIds : tagIds[i] = t}

\* The rows of tags: { create: tagIds.map(tagId => ({ tagId })) } for the entry.
TagLinks(id, tagIds) == {<<id, tagIds[i]>> : i \in DOMAIN tagIds}

\* The foreign keys and the unique index of password_entry_tags accept the rows.
LinksOk(tagIds) ==
    /\ \A i \in DOMAIN tagIds : tagIds[i] \in DOMAIN tags
    /\ \A i, j \in DOMAIN tagIds : i # j => tagIds[i] # tagIds[j]

\* Mutant: the links of the entry stay and the new ones are added.
AddedLinks(id, tagIds) ==
    IF tagIds = Undefined THEN links ELSE links \cup TagLinks(id, tagIds)

\* tags: { deleteMany: {}, create: ... } when the body has tagIds.
ReplacedLinks(id, tagIds) ==
    IF tagIds = Undefined THEN links
    ELSE {l \in links : l[1] # id} \cup TagLinks(id, tagIds)

\* The entry of a reply, with tags: entry.tags.map(t => t.tag).
EntryReply(route, h, status, entry, tagIds) ==
    IF DecryptOrNull(entry.password, entry.salt).threw
      THEN InternalError(route, h.userId)
      ELSE Reply(route, h.userId, status,
                 WithWarnings([passwordEntry |->
                                  [decryptedEntry(entry) EXCEPT !.tags = tagIds]],
                              h.password))

\* POST /api/passwords up to prisma.passwordEntry.findFirst and its 400.
CreateFind(userId, site, username, password, notes, tagIds) ==
    /\ BagCardinality(inflight) < limit
    /\ serial.entry + Creating < MaxRows
    /\ IF ~CreateSchemaOk(site, username)
         THEN /\ reply' = Reply("create", userId, 400, [error |-> "Validation failed"])
              /\ UNCHANGED inflight
       ELSE IF Duplicates(userId, site, username, 0) # {}
         THEN /\ reply' = Reply("create", userId, 400, [error |-> "Password entry already exists"])
              /\ UNCHANGED inflight
       ELSE /\ inflight' = Started(EntryHandler(
                                IF ChecksTags(DefaultTagIds(tagIds)) THEN "tags" ELSE "write",
                                "create", userId, 0, site, username, password, notes,
                                DefaultTagIds(tagIds)))
            /\ UNCHANGED reply
    /\ UNCHANGED <<throttleVars, db, limit, cryptoVars, csvVars, entries, written, storeVars>>

\* POST and PUT /api/passwords: prisma.tag.findMany and its 400.
TagsCheck(h) ==
    /\ h \in Running
    /\ h.pc = "tags"
    /\ IF Cardinality(userTags(h.tagIds, h.userId)) # Len(h.tagIds)
         THEN /\ reply' = Reply(h.route, h.userId, 400,
                                [error |-> "Some tags do not belong to you"])
              /\ inflight' = Finished(h)
         ELSE /\ inflight' = Awaiting(h, "write")
              /\ UNCHANGED reply
    /\ UNCHANGED <<throttleVars, db, limit, cryptoVars, csvVars, entries, written, storeVars>>

\* POST /api/passwords: generateSalt, encrypt and prisma.passwordEntry.create,
\* which fails on a foreign key or a unique index of the schema.
CreateWrite(h) ==
    /\ h \in Running
    /\ h.route = "create"
    /\ h.pc = "write"
    /\ inflight' = Finished(h)
    /\ \E random \in StoreRandoms(TRUE, h.password, h.notes) :
          LET id      == serial.entry + 1
              created == entries @@ (id :> CreatedRow(id, h.userId, h.site, h.username,
                                                      h.password, h.notes, random))
          IN IF h.userId \in DOMAIN db /\ UniqueEntries(created) /\ LinksOk(h.tagIds)
               THEN /\ entries' = created
                    /\ links' = links \cup TagLinks(id, h.tagIds)
                    /\ serial' = [serial EXCEPT !.entry = id]
                    /\ reply' = EntryReply("create", h, 201, created[id], h.tagIds)
               ELSE /\ reply' = InternalError("create", h.userId)
                    /\ UNCHANGED <<entries, links, serial>>
    /\ UNCHANGED <<throttleVars, db, limit, cryptoVars, csvVars, written, tags>>

\* PUT /api/passwords/:id up to prisma.passwordEntry.findFirst({ id, userId })
\* and its 404; newSite and newUsername are taken from the entry found.
UpdateFind(userId, id, site, username, password, notes, tagIds) ==
    /\ BagCardinality(inflight) < limit
    /\ IF ~UpdateSchemaOk(site, username)
         THEN /\ reply' = Reply("update", userId, 400, [error |-> "Validation failed"])
              /\ UNCHANGED inflight
       ELSE IF id \notin DOMAIN entries \/ entries[id].userId # userId
         THEN /\ reply' = Reply("update", userId, 404, [error |-> "Password entry not found"])
              /\ UNCHANGED inflight
       ELSE LET existingEntry == entries[id]
                h == EntryHandler(
                         IF site # Absent \/ username # Absent THEN "duplicate"
                         ELSE IF ChecksTags(tagIds) THEN "tags" ELSE "write",
                         "update", userId, id, site, username, password, notes, tagIds)
            IN /\ inflight' = Started(
                     [h EXCEPT !.newSite = IF site = Absent THEN existingEntry.site ELSE site,
                               !.newUsername = IF username = Absent THEN existingEntry.username
                                               ELSE username])
               /\ UNCHANGED reply
    /\ UNCHANGED <<throttleVars, db, limit, cryptoVars, csvVars, entries, written, storeVars>>

\* PUT /api/passwords/:id: the findFirst for another entry with newSite and
\* newUsername, and its 400.
UpdateDuplicate(h) ==
    /\ h \in Running
    /\ h.pc = "duplicate"
    /\ IF Duplicates(h.userId, h.newSite, h.newUsername, h.id) # {}
         THEN /\ reply' = Reply("update", h.userId, 400,
                                [error |-> "Password entry already exists"])
              /\ inflight' = Finished(h)
         ELSE /\ inflight' = Awaiting(h, IF ChecksTags(h.tagIds) THEN "tags" ELSE "write")
              /\ UNCHANGED reply
    /\ UNCHANGED <<throttleVars, db, limit, cryptoVars, csvVars, entries, written, storeVars>>

\* PUT /api/passwords/:id: encrypt under the salt of the entry and
\* prisma.passwordEntry.update where { id }, which fails when the entry is gone
\* and on a foreign key or a unique index of the schema.
UpdateWrite(h) ==
    /\ h \in Running
    /\ h.route = "update"
    /\ h.pc = "write"
    /\ inflight' = Finished(h)
    /\ \E random \in StoreRandoms(FALSE, h.password, h.notes) :
          IF h.id \notin DOMAIN entries
            THEN /\ reply' = InternalError("update", h.userId)
                 /\ UNCHANGED <<entries, links>>
            ELSE LET updated == [entries EXCEPT ![h.id] =
                                    UpdatedRow(@, h.site, h.username, h.password, h.notes, random)]
                     ok      == h.tagIds = Undefined \/ LinksOk(h.tagIds)
                     linked  == ReplacedLinks(h.id, h.tagIds)
                 IN IF UniqueEntries(updated) /\ ok
                      THEN /\ entries' = updated
                           /\ links' = linked
                           /\ reply' = EntryReply("update", h, 200, updated[h.id],
                                                  {l[2] : l \in {x \in linked : x[1] = h.id}})
                      ELSE /\ reply' = InternalError("update", h.userId)
                           /\ UNCHANGED <<entries, links>>
    /\ UNCHANGED <<throttleVars, db, limit, cryptoVars, csvVars, written, tags, serial>>

\* DELETE /api/passwords/:id up to prisma.passwordEntry.findFirst and its 404.
DeleteFind(userId, id) ==
    /\ BagCardinality(inflight) < limit
    /\ IF id \notin DOMAIN entries \/ entries[id].userId # userId
         THEN /\ reply' = Reply("delete", userId, 404, [error |-> "Password entry not found"])
              /\ UNCHANGED inflight
         ELSE /\ inflight' = Started(EntryHandler("write", "delete", userId, id, Absent, Absent,
                                                  Undefined, Undefined, Undefined))
              /\ UNCHANGED reply
    /\ UNCHANGED <<throttleVars, db, limit, cryptoVars, csvVars, entries, written, storeVars>>

\* DELETE /api/passwords/:id: prisma.passwordEntry.delete, with the cascade.
DeleteWrite(h) ==
    /\ h \in Running
    /\ h.route = "delete"
    /\ h.pc = "write"
    /\ inflight' = Finished(h)
    /\ IF h.id \in DOMAIN entries
         THEN /\ entries' = Without(entries, {h.id})
              /\ links' = DeletedEntry(h.id)
              /\ reply' = Reply("delete", h.userId, 200,
                                [message |-> "Password entry deleted successfully"])
         ELSE /\ reply' = InternalError("delete", h.userId)
              /\ UNCHANGED <<entries, links>>
    /\ UNCHANGED <<throttleVars, db, limit, cryptoVars, csvVars, written, tags, serial>>

\* ------------------------------------------------------- specifications

\* Login requests against the account alice.
Next ==
    \/ \E d \in TickSteps : Tick(d)
    \/ \E n \in {"alice", ""}, p \in {"guess", ""} : LoginReject(n, p)
    \/ \E n \in {"alice", "nobody"}, p \in {"secret-alice", "guess"} : LoginFind(n, p)
    \/ \E q \in Running : LoginCheck(q)
    \/ \E q \in Running : LoginFail(q)
    \/ \E q \in Running : LoginSucceed(q)

\* Concurrent requests: any handler may take its next step at any time.
Spec == Init /\ [][Next]_vars

\* Requests processed one at a time.
SpecSeq == InitSeq /\ [][Next]_vars

\* The tier function alone, applied to every attempts count up to MaxArg.
NextTier ==
    \/ TierCall
    \/ \E arg \in 0 .. MaxArg : TierPick(arg)

SpecTier == InitTier /\ [][NextTier]_vars

\* encrypt and decrypt alone.
NextCrypto ==
    \/ \E text \in Plaintexts, random \in RandomBytes(IvBytes) : EncryptCall(text, random)
    \/ \E encryptedData \in DecryptInputs, s \in {salt, <<>>} : DecryptCall(encryptedData, s)

SpecCrypto == InitCrypto /\ [][NextCrypto]_vars

\* The passwords router, on an empty table.
InitVault == Start(0, 0)

NextVault ==
    \/ \E userId \in Callers, site \in Sites, username \in Usernames,
          password \in TextArgs, notes \in TextArgs :
          PasswordCreate(userId, site, username, password, notes)
    \/ \E userId \in Callers, id \in 1 .. MaxEntries, site \in Sites \cup {Absent},
          username \in {Absent}, password \in TextArgs, notes \in TextArgs :
          PasswordUpdate(userId, id, site, username, password, notes)
    \/ \E userId \in Callers, query \in Queries : PasswordList(userId, query)
    \/ \E userId \in Callers, id \in 1 .. MaxEntries : PasswordGet(userId, id)
    \/ \E userId \in Callers, id \in 1 .. MaxEntries : PasswordNotes(userId, id)

SpecVault == InitVault /\ [][NextVault]_vars

\* exportPasswordsToCSV and parsePasswordsFromCSV alone.
NextCsv ==
    \/ CsvRoundTrip

SpecCsv == InitCsv /\ [][NextCsv]_vars

\* The users and tags routers: both accounts exist and at least one is an
\* admin's; the database is seeded, with the sample tag of an admin, or not.
InitAdmin ==
    /\ \E admins \in (SUBSET Users) \ {{}} :
          db = [u \in Users |-> Account(u, u \in admins)]
    /\ \E superUser \in {u \in Users : db[u].isAdmin} :
          tags \in {<<>>, sampleTags(superUser)}
    /\ serial = [tag |-> Cardinality(DOMAIN tags), entry |-> 0]
    /\ clock = 0
    /\ inflight = EmptyBag
    /\ limit \in {1, NumReqs}
    /\ sent = NoResponse
    /\ failedChecks = [u \in Users |-> 0]
    /\ tierArg = 0
    /\ tierResult = Null
    /\ entries = <<>>
    /\ written = <<>>
    /\ reply = NoReply
    /\ links = {}
    /\ imported = NotImported
    /\ salt = <<>>
    /\ calls = <<>>
    /\ dec = NoDecrypt
    /\ passwords = <<>>

NextAdmin ==
    \/ \E caller \in Users, id \in Users \cup {"nobody"}, isAdmin \in BOOLEAN :
          UserUpdateBegin(caller, id, isAdmin)
    \/ \E h \in Running : UserUpdateWrite(h)
    \/ \E caller \in Users, id \in Users \cup {"nobody"} : UserDeleteBegin(caller, id)
    \/ \E h \in Running : UserDeleteWrite(h)
    \/ \E userId \in Users, name \in TagNames \ {Undefined} : TagCreate(userId, name)
    \/ \E userId \in Users, id \in 1 .. MaxTags, name \in TagNames : TagUpdate(userId, id, name)
    \/ \E userId \in Users, id \in 1 .. MaxTags : TagDelete(userId, id)

SpecAdmin == InitAdmin /\ [][NextAdmin]_vars

\* The three routers on one database, one request at a time: alice is an
\* admin and bob is not, and no tags or password entries are stored.
InitStore ==
    /\ db = [u \in Users |-> Account(u, u = "alice")]
    /\ clock = 0
    /\ inflight = EmptyBag
    /\ limit = 1
    /\ sent = NoResponse
    /\ failedChecks = [u \in Users |-> 0]
    /\ tierArg = 0
    /\ tierResult = Null
    /\ entries = <<>>
    /\ written = <<>>
    /\ reply = NoReply
    /\ tags = <<>>
    /\ links = {}
    /\ serial = [tag |-> 0, entry |-> 0]
    /\ imported = NotImported
    /\ salt = <<>>
    /\ calls = <<>>
    /\ dec = NoDecrypt
    /\ passwords = <<>>

NextStore ==
    \/ \E userId \in Users, tagIds \in {Undefined, <<1>>, <<1, 2>>} :
          CreateFind(userId, "a.example", "joe", <<97>>, <<97>>, tagIds)
    \/ \E h \in Running : TagsCheck(h)
    \/ \E h \in Running : CreateWrite(h)
    \/ \E userId \in Users, id \in 1 .. MaxRows, body \in UpdateBodies :
          UpdateFind(userId, id, Absent, Absent, body.password, body.notes, body.tagIds)
    \/ \E h \in Running : UpdateWrite(h)
    \/ \E userId \in Users, id \in 1 .. MaxRows : DeleteFind(userId, id)
    \/ \E h \in Running : DeleteWrite(h)
    \/ \E userId \in Users : TagCreate(userId, <<120>>)
    \/ \E userId \in Users, id \in 1 .. MaxTags : TagDelete(userId, id)
    \/ \E caller \in Users, id \in Users : UserDeleteBegin(caller, id)
    \/ \E h \in Running : UserDeleteWrite(h)

SpecStore == InitStore /\ [][NextStore]_vars

\* POST and PUT /api/passwords of two requests at a time, which create entries
\* and change the site of an entry.
InitRace ==
    /\ db = [u \in Users |-> Account(u, u = "alice")]
    /\ clock = 0
    /\ inflight = EmptyBag
    /\ limit = NumReqs
    /\ sent = NoResponse
    /\ failedChecks = [u \in Users |-> 0]
    /\ tierArg = 0
    /\ tierResult = Null
    /\ entries = <<>>
    /\ written = <<>>
    /\ reply = NoReply
    /\ tags = <<>>
    /\ links = {}
    /\ serial = [tag |-> 0, entry |-> 0]
    /\ imported = NotImported
    /\ salt = <<>>
    /\ calls = <<>>
    /\ dec = NoDecrypt
    /\ passwords = <<>>

NextRace ==
    \/ \E userId \in Users, site \in StoreSites :
          CreateFind(userId, site, "joe", <<97>>, Undefined, Undefined)
    \/ \E h \in Running : CreateWrite(h)
    \/ \E userId \in Users, id \in 1 .. MaxRows, site \in StoreSites :
          UpdateFind(userId, id, site, Absent, Undefined, Undefined, Undefined)
    \/ \E h \in Running : UpdateDuplicate(h)
    \/ \E h \in Running : UpdateWrite(h)

SpecRace == InitRace /\ [][NextRace]_vars

\* ---------------------------------------------------------------- claims

\* The handler q takes a step: one copy of its locals leaves the bag.
Moved(q) == CopiesIn(q, inflight') < CopiesIn(q, inflight)

Seconds(n) == n * 1000

Minutes(n) == n * 60 * 1000

\* C1. Lockout gate: a handler that read an account whose lockedUntil is set and
\* later than now answers 423 "temporarily locked" with the stored attempts, whatever
\* password was submitted; it returns before the password is compared (no handler
\* continues from it) and the users table is left as it was.
LockoutGate ==
    [][\A q \in Running :
          (q.pc = "found" /\ q.user.lockedUntil # Null /\ q.user.lockedUntil > clock /\ Moved(q))
          => /\ sent'.status = 423
             /\ sent'.error = "Account temporarily locked"
             /\ sent'.attempts = q.user.loginAttempts
             /\ BagCardinality(inflight') = BagCardinality(inflight) - 1
             /\ db' = db
             /\ failedChecks' = failedChecks]_vars

\* A locked account has just turned a request away and is still locked.
LockoutGateWitness ==
    /\ sent.status = 423
    /\ sent.error = "Account temporarily locked"
    /\ db["alice"].lockedUntil > clock
    /\ db["alice"].loginAttempts = sent.attempts
    /\ db["alice"].loginAttempts >= 3

\* C4. Reset on success: a handler that passed the gate with the correct password
\* leaves the account with loginAttempts = 0, lockedUntil = null and
\* lastFailedLogin = null, whatever the row held before, and answers 200.
ResetOnSuccess ==
    [][\A q \in Running :
          (q.pc = "valid" /\ Moved(q))
          => /\ db'[q.name].loginAttempts = 0
             /\ db'[q.name].lockedUntil = Null
             /\ db'[q.name].lastFailedLogin = Null
             /\ sent'.status = 200]_vars

\* A success after three or more failures (an expired lock) has cleared the row.
ResetOnSuccessWitness ==
    /\ sent.status = 200
    /\ sent.previousFailedAttempts >= 3
    /\ db["alice"].loginAttempts = 0
    /\ db["alice"].lockedUntil = Null
    /\ db["alice"].lastFailedLogin = Null

\* C2. No lost failed attempt under concurrency: every wrong-password handler that
\* passed the gate raises the stored count by exactly one when it records its
\* failure (k of them raise it by k), and the lock it sets is the one of the tier
\* of that count.
NoLostAttempt ==
    [][\A q \in Running :
          (q.pc = "invalid" /\ Moved(q))
          => LET before == db[q.name].loginAttempts
             IN /\ db'[q.name].loginAttempts = before + 1
                /\ getLockoutDuration(before + 1) > 0
                   => db'[q.name].lockedUntil = q.now + getLockoutDuration(before + 1)]_vars

\* C3. No lockout extension while locked: while the stored lockedUntil of an
\* account is later than now, no step of any login request changes its lockedUntil
\* or its loginAttempts.
NoChangeWhileLocked ==
    [][\A u \in Users :
          (db[u].lockedUntil # Null /\ db[u].lockedUntil > clock)
          => /\ db'[u].lockedUntil = db[u].lockedUntil
             /\ db'[u].loginAttempts = db[u].loginAttempts]_vars

\* C5. Failure transition: a handler that passed the gate at time now with a wrong
\* password stores the count it read plus one and lastFailedLogin = now; when the
\* tier of the new count is not 0 it stores lockedUntil = now + duration, later
\* than now, and answers 423 with remainingSeconds = duration / 1000 and the new
\* count. The duration is that of the new count: the 5th failure locks for 3 minutes.
FailureTransition ==
    [][\A q \in Running :
          (q.pc = "invalid" /\ Moved(q))
          => LET n == q.user.loginAttempts + 1
                 d == getLockoutDuration(n)
             IN /\ db'[q.name].loginAttempts = n
                /\ db'[q.name].lastFailedLogin = q.now
                /\ d > 0 => /\ db'[q.name].lockedUntil = q.now + d
                            /\ db'[q.name].lockedUntil > q.now
                            /\ sent'.status = 423
                            /\ sent'.remainingSeconds * 1000 = d
                            /\ sent'.attempts = n
                /\ n = 5 => db'[q.name].lockedUntil = q.now + Minutes(3)]_vars

\* The 5th failure came after the 30-second lock of the 4th had expired, and
\* locked the account for 3 minutes.
FailureTransitionWitness ==
    /\ sent.status = 423
    /\ sent.error = "Account locked"
    /\ sent.attempts = 5
    /\ sent.remainingSeconds = 180
    /\ db["alice"].loginAttempts = 5
    /\ db["alice"].lockedUntil = db["alice"].lastFailedLogin + Minutes(3)
    /\ db["alice"].lastFailedLogin >= Seconds(60)

\* C7. Counter meaning: with requests processed one at a time, the stored count is
\* the number of wrong-password comparisons since the last success (failedChecks),
\* less the comparison whose handler has not written yet; requests turned away at
\* the gate compare nothing and count nothing.
CounterMeaning ==
    \A u \in Users :
        db[u].loginAttempts = failedChecks[u] - Cardinality(At("invalid", u))

\* Five failures were counted, and the request after them was turned away.
CounterMeaningWitness ==
    /\ limit = 1
    /\ inflight = EmptyBag
    /\ failedChecks["alice"] = 5
    /\ db["alice"].loginAttempts = 5
    /\ sent.error = "Account temporarily locked"

\* C8. Tier escalation never regresses: only a success makes the stored count
\* smaller, a failure that is recorded never gives a shorter lock than the count
\* before it had, and from 8 on every lock is 10 minutes.
NeverRegresses ==
    [][\A u \in Users :
          /\ db'[u].loginAttempts < db[u].loginAttempts
             => db'[u].loginAttempts = 0 /\ sent'.status = 200
          /\ (db'[u] # db[u] /\ sent'.status # 200)
             => /\ getLockoutDuration(db'[u].loginAttempts) >= getLockoutDuration(db[u].loginAttempts)
                /\ db[u].loginAttempts >= 8 => sent'.remainingSeconds = 600]_vars

\* C9 as stated. After a lock has expired a failure sets a new lock only when the
\* new count crosses a threshold (3, 5 or 8): the 4th failure, after the lock of
\* the 3rd has expired, sets none.
RelockOnlyOnCrossing ==
    [][\A q \in Running :
          (q.pc = "invalid" /\ Moved(q) /\ q.user.lockedUntil # Null
             /\ q.user.loginAttempts + 1 \notin {3, 5, 8})
          => /\ db'[q.name].lockedUntil = db[q.name].lockedUntil
             /\ sent'.status = 401]_vars

\* C9, amended. A failure sets a new lock whenever the new count is 3 or more, of
\* the tier of that count: the 4th failure sets a new 30-second lock, and the
\* lock grows to 3 minutes when the count reaches 5 (to 10 minutes at 8); below
\* 3 the failure sets no lock.
RelockEveryFailure ==
    [][\A q \in Running :
          (q.pc = "invalid" /\ Moved(q))
          => LET n == q.user.loginAttempts + 1
             IN /\ n < 3 => /\ db'[q.name].lockedUntil = db[q.name].lockedUntil
                            /\ sent'.status = 401
                /\ n \in 3 .. 4 => /\ db'[q.name].lockedUntil = q.now + Seconds(30)
                                   /\ sent'.status = 423
                /\ n \in 5 .. 7 => /\ db'[q.name].lockedUntil = q.now + Minutes(3)
                                   /\ sent'.status = 423
                /\ n >= 8 => /\ db'[q.name].lockedUntil = q.now + Minutes(10)
                             /\ sent'.status = 423]_vars

\* The 30-second lock of the 3rd failure expired, and the 4th failure set a new one.
RelockEveryFailureWitness ==
    /\ sent.status = 423
    /\ sent.error = "Account locked"
    /\ sent.attempts = 4
    /\ sent.remainingSeconds = 30
    /\ db["alice"].loginAttempts = 4
    /\ db["alice"].lastFailedLogin >= Seconds(30)
    /\ db["alice"].lockedUntil = db["alice"].lastFailedLogin + Seconds(30)

\* C10. No permanent lockout: a stored lock never ends more than 10 minutes after
\* now; a handler that reads the account once the lock has ended passes the gate
\* with nothing but the clock having moved, and with the correct password it goes
\* on to succeed: it answers 200 and leaves the account unlocked.
NoPermanentLockout ==
    [][\A u \in Users :
          /\ db'[u].lockedUntil # Null => db'[u].lockedUntil - clock' <= Minutes(10)
          /\ \A q \in At("found", u) :
                (Moved(q) /\ q.password = PasswordOf(u)
                   /\ (q.user.lockedUntil = Null \/ q.user.lockedUntil <= clock))
                => [q EXCEPT !.pc = "valid", !.now = clock] \in BagToSet(inflight')
          /\ \A q \in At("valid", u) :
                Moved(q) => sent'.status = 200 /\ db'[u].lockedUntil = Null]_vars

\* The 8th failure locked the account for 10 minutes; 10 minutes later the
\* correct password was accepted.
NoPermanentLockoutWitness ==
    /\ sent.status = 200
    /\ sent.previousFailedAttempts = 8
    /\ db["alice"].lockedUntil = Null
    /\ clock >= Minutes(20)

\* C6. Lockout tier function: getLockoutDuration(n) is 0 for n < 3, 30 seconds for
\* 3 <= n <= 4, 3 minutes for 5 <= n <= 7 and 10 minutes for n >= 8; it never
\* exceeds 10 minutes and no smaller count gets a longer duration.
LockoutTiers ==
    tierResult # Null =>
        /\ tierResult = (IF tierArg < 3 THEN 0
                         ELSE IF tierArg <= 4 THEN Seconds(30)
                         ELSE IF tierArg <= 7 THEN Minutes(3)
                         ELSE Minutes(10))
        /\ tierResult <= Minutes(10)
        /\ \A m \in 0 .. tierArg : getLockoutDuration(m) <= tierResult

\* The function was applied on the last threshold and far above it.
LockoutTiersWitness ==
    /\ tierArg = MaxArg
    /\ tierResult = Minutes(10)

\* C11. A failure that yields no lockout leaves no lock behind: when a
\* wrong-password attempt is recorded and the new count is below 3, the stored
\* lockedUntil is null afterwards, in every interleaving of concurrent requests.
NoLockLeftBehind ==
    [][\A q \in Running :
          (q.pc = "invalid" /\ Moved(q) /\ NewAttempts(q.user) < 3)
          => db'[q.name].lockedUntil = Null]_vars

\* C12. Previous-failure report on success: a successful login reports
\* previousFailedAttempts equal to the count stored just before the reset when
\* that count is 3 or more, and reports none when it is 0, 1 or 2.
PreviousFailureReport ==
    [][\A q \in Running :
          (q.pc = "valid" /\ Moved(q))
          => LET stored == db[q.name].loginAttempts
             IN /\ sent'.status = 200
                /\ sent'.previousFailedAttempts = (IF stored >= 3 THEN stored ELSE Null)]_vars

\* C13. Remaining time at the gate: a request turned away at the gate gets 423 (a
\* normal result) with remainingSeconds = ceil((lockedUntil - now) / 1 s), at
\* least 1 and never more than the tier duration of the stored count, and with the
\* stored count unchanged; after the third consecutive failure it lies in
\* (0, 30], and 10 seconds later in (0, 20].
GateRemaining ==
    [][\A q \in Running :
          (q.pc = "found" /\ Moved(q) /\ IsLockedOut(q.user, clock))
          => LET stored == db[q.name]
             IN /\ sent'.status = 423
                /\ sent'.remainingSeconds = Ceil(stored.lockedUntil - clock, Seconds(1))
                /\ sent'.remainingSeconds >= 1
                /\ Seconds(sent'.remainingSeconds) <= getLockoutDuration(stored.loginAttempts)
                /\ sent'.attempts = stored.loginAttempts
                /\ db'[q.name] = stored
                /\ stored.loginAttempts = 3
                   => /\ sent'.remainingSeconds \in 1 .. 30
                      /\ clock >= stored.lastFailedLogin + Seconds(10)
                         => sent'.remainingSeconds \in 1 .. 20]_vars

\* The text has no unpaired surrogate: it is well-formed Unicode.
WellFormed(text) == \A i \in 1 .. Len(text) : text[i] \notin 55296 .. 57343

\* The string is two non-empty runs of hex digits with one ':' between them.
TwoHexParts(str) ==
    \E k \in 2 .. Len(str) - 1 :
        /\ str[k] = Colon
        /\ \A i \in (1 .. Len(str)) \ {k} : HexValue(str[i]) # Null

\* The string has no ':', or nothing before its first ':', or nothing between
\* its first ':' and the next one (or the end).
MissingPart(str) ==
    \/ \A i \in 1 .. Len(str) : str[i] # Colon
    \/ str[1] = Colon
    \/ \E k \in 1 .. Len(str) :
          /\ str[k] = Colon
          /\ \A i \in 1 .. k - 1 : str[i] # Colon
          /\ k = Len(str) \/ str[k + 1] = Colon

\* The IV in front of a ciphertext string.
IvOf(out) == FromHex(SubSeq(out, 1, 2 * IvBytes))

\* C14 as stated. Encryption round trip: for every non-empty plaintext p and
\* every salt s, decrypt(encrypt(p, s), s) returns exactly p.
RoundTrip ==
    \A i \in 1 .. Len(calls) :
        (calls[i].text # <<>> /\ dec.data = calls[i].out /\ dec.salt = salt)
        => dec.result = Returned(calls[i].text)

\* C14, amended. For every non-empty plaintext p that is well-formed Unicode (no
\* unpaired surrogate) and every salt s, decrypt(encrypt(p, s), s) returns
\* exactly p.
RoundTripWellFormed ==
    \A i \in 1 .. Len(calls) :
        (calls[i].text # <<>> /\ WellFormed(calls[i].text)
           /\ dec.data = calls[i].out /\ dec.salt = salt)
        => dec.result = Returned(calls[i].text)

\* A text with ':' and characters of two and three bytes came back from its
\* ciphertext, under a generated salt.
RoundTripWitness ==
    \E i \in 1 .. Len(calls) :
        /\ calls[i].text = <<Colon, 233, 8364>>
        /\ salt # <<>>
        /\ dec.data = calls[i].out
        /\ dec.salt = salt
        /\ dec.result = Returned(<<Colon, 233, 8364>>)

FreshIv ==
    \A i \in 1 .. Len(calls) :
        calls[i].text # <<>>
        => /\ Len(calls[i].drawn) = 1
           /\ IvOf(calls[i].out) = calls[i].drawn[1]
           /\ \A j \in (1 .. Len(calls)) \ {i} :
                 calls[j].text = calls[i].text => calls[j].out # calls[i].out

\* C17, amended. Every call of encrypt on a non-empty plaintext draws one IV from
\* crypto.randomBytes and puts it in front of its ciphertext, so two calls
\* encrypt(p, s) with the same p and s give different ciphertext strings
\* whenever the two IVs drawn differ (and the same string when they are equal);
\* the ciphertexts of the password and of the notes of one record each carry
\* the IV drawn for them.
FreshIvPerCall ==
    \A i \in 1 .. Len(calls) :
        calls[i].text # <<>>
        => /\ Len(calls[i].drawn) = 1
           /\ IvOf(calls[i].out) = calls[i].drawn[1]
           /\ calls[i].out[2 * IvBytes + 1] = Colon
           /\ \A j \in (1 .. Len(calls)) \ {i} :
                 calls[j].text = calls[i].text
                 => (calls[j].out = calls[i].out <=> calls[j].drawn = calls[i].drawn)

\* Two calls on the same text drew different IVs and gave different strings.
FreshIvPerCallWitness ==
    /\ Len(calls) >= 2
    /\ calls[1].text # <<>>
    /\ calls[2].text = calls[1].text
    /\ calls[2].drawn # calls[1].drawn
    /\ calls[2].out # calls[1].out

\* C18. Empty-string short circuit: encrypt of the empty string returns the empty
\* string and draws no IV; decrypt of the empty string returns the empty string.
EmptyShortCircuit ==
    /\ \A i \in 1 .. Len(calls) :
          calls[i].text = <<>> => calls[i].out = <<>> /\ calls[i].drawn = <<>>
    /\ (dec # NoDecrypt /\ dec.data = <<>>) => dec.result = Returned(<<>>)

\* Both functions were applied to the empty string.
EmptyShortCircuitWitness ==
    /\ \E i \in 1 .. Len(calls) : calls[i].text = <<>> /\ calls[i].out = <<>>
    /\ dec # NoDecrypt
    /\ dec.data = <<>>
    /\ dec.result = Returned(<<>>)

\* Every stored ciphertext decrypts under the salt of its row to the text
\* written last to its column.
Decryptable ==
    \A id \in DOMAIN entries :
        /\ entries[id].password # DbNull
           => decrypt(entries[id].password, entries[id].salt) = Returned(written[id].password)
        /\ entries[id].notes # DbNull
           => decrypt(entries[id].notes, entries[id].salt) = Returned(written[id].notes)

\* The same, for the texts written last that are well-formed Unicode.
DecryptableWellFormed ==
    \A id \in DOMAIN entries :
        /\ (entries[id].password # DbNull /\ WellFormed(written[id].password))
           => decrypt(entries[id].password, entries[id].salt) = Returned(written[id].password)
        /\ (entries[id].notes # DbNull /\ WellFormed(written[id].notes))
           => decrypt(entries[id].notes, entries[id].salt) = Returned(written[id].notes)

\* No step removes an entry or changes its salt.
SaltKept ==
    \A id \in DOMAIN entries :
        id \in DOMAIN entries' /\ entries'[id].salt = entries[id].salt

\* C19 as stated. Salt stability: no update changes the salt an entry was created
\* with, and after any sequence of create and update requests every stored
\* password or notes ciphertext that is not null decrypts, under the salt of its
\* entry, to the plaintext written last to that field.
SaltStability == [][SaltKept]_vars /\ []Decryptable

\* C19, amended. No update changes the salt an entry was created with, and after
\* any sequence of create and update requests every stored password or notes
\* ciphertext that is not null decrypts, under the salt of its entry, to the
\* plaintext written last to that field when that plaintext is well-formed
\* Unicode (has no unpaired surrogate).
SaltStabilityWellFormed == [][SaltKept]_vars /\ []DecryptableWellFormed

\* An update has written a new password beside notes that were there before;
\* both decrypt under the salt of the entry.
SaltStabilityWitness ==
    /\ reply.endpoint = "update"
    /\ reply.status = 200
    /\ 1 \in DOMAIN entries
    /\ written[1].password = <<97, 233>>
    /\ written[1].notes = <<97, 233>>
    /\ entries[1].password # entries[1].notes
    /\ decrypt(entries[1].password, entries[1].salt) = Returned(<<97, 233>>)
    /\ decrypt(entries[1].notes, entries[1].salt) = Returned(<<97, 233>>)

\* The entries in the response sent last.
SentEntries ==
    IF reply.status \notin {200, 201} THEN {}
    ELSE IF reply.endpoint = "list" THEN reply.body.entries
    ELSE IF reply.endpoint = "get" THEN {reply.body}
    ELSE IF reply.endpoint \in {"create", "update"} THEN {reply.body.passwordEntry}
    ELSE {}

ThirdFailureLocks ==
    [][\A q \in Running :
          (q.pc = "invalid" /\ Moved(q))
          => IF db'[q.name].loginAttempts >= 3
               THEN /\ sent'.status = 423
                    /\ sent'.error = "Account locked"
                    /\ db'[q.name].lockedUntil > q.now
               ELSE /\ sent'.status = 401
                    /\ sent'.attempts = db'[q.name].loginAttempts
                    /\ sent'.attempts \in {1, 2}
                    /\ sent'.attemptsRemaining = 3 - sent'.attempts
                    /\ sent'.attemptsRemaining \in {1, 2}]_vars

\* The second failure in a row was answered 401 with one attempt remaining.
ThirdFailureLocksWitness ==
    /\ limit = 1
    /\ sent.status = 401
    /\ sent.attempts = 2
    /\ sent.attemptsRemaining = 1
    /\ db["alice"].loginAttempts = 2
    /\ db["alice"].lockedUntil = Null

\* C28. Login requests touch only the named account: a step in which no running
\* handler advances (a body that fails validation, a name that matches no user,
\* the lookup of a request that begins) writes nothing to the users table, and a
\* step of a handler for the account A leaves the row of every other account as
\* it was.
OnlyNamedAccount ==
    [][/\ \A q \in Running :
             Moved(q) => \A u \in Users \ {q.name} : db'[u] = db[u]
       /\ (\A q \in Running : ~Moved(q)) => db' = db]_vars

\* A failure was recorded on alice, bob's row is as created, and the response
\* sent last is the 401 of a name that matches no user.
OnlyNamedAccountWitness ==
    /\ db["alice"].loginAttempts = 1
    /\ db["alice"].lastFailedLogin # Null
    /\ db["bob"] = NewUser("bob")
    /\ sent.status = 401
    /\ sent.attempts = Null

\* C26. CSV round trip: for every list of entries whose site, username and
\* password are non-empty strings over an alphabet with the double quote and the
\* comma (no line breaks), parsing the export yields one entry per entry
\* exported, in order, with the same site, username and password.
CsvRoundTripExact ==
    imported.done
    => /\ Len(imported.value) = Len(passwords)
       /\ \A i \in 1 .. Len(passwords) :
             i <= Len(imported.value)
             => /\ imported.value[i].site = passwords[i].site
                /\ imported.value[i].username = passwords[i].username
                /\ imported.value[i].password = passwords[i].password

\* The entries of the caller whose site, username or decrypted notes contain the
\* trimmed query, case ignored.
Matching(userId, query) ==
    LET queryLower == ToLowerCase(Trim(query))
    IN {id \in DOMAIN entries :
          /\ entries[id].userId = userId
          /\ \/ Includes(ToLowerCase(CodeUnits(entries[id].site)), queryLower)
             \/ Includes(ToLowerCase(CodeUnits(entries[id].username)), queryLower)
             \/ /\ entries[id].notes # DbNull
                /\ Includes(ToLowerCase(decrypt(entries[id].notes, entries[id].salt).value),
                            queryLower)}

\* C25. Text search covers notes: the list endpoint, asked with a query that is
\* not blank, answers with exactly the entries of the caller whose site, username
\* or decrypted notes contain the trimmed query, case ignored; an entry that
\* matches in its notes only is among them.
SearchCoversNotes ==
    (/\ reply.endpoint = "list"
     /\ reply.status = 200
     /\ ~Falsy(reply.query)
     /\ ~Falsy(Trim(reply.query)))
    => {e.id : e \in reply.body.entries} = Matching(reply.caller, reply.query)

\* C29: an administrator always remains: from a state with at least one admin,
\* after any sequence or interleaving of the requests that update isAdmin or
\* delete a user, at least one user is an admin.
AdminRemains == \E u \in DOMAIN db : db[u].isAdmin

\* C22: tag names are unique per user ignoring case: after any sequence of tag
\* create and update requests no two tags of a user have names that are equal
\* when compared case-insensitively.
UniqueIgnoringCase ==
    \A a, b \in DOMAIN tags :
        a # b /\ tags[a].userId = tags[b].userId
            => ToLowerCase(tags[a].name) # ToLowerCase(tags[b].name)

\* The site and the username the row of the handler h has once h has written:
\* those of the request, or those of the stored row for a PUT without them.
SiteWritten(h) ==
    IF h.route = "create" \/ h.site # Absent THEN h.site ELSE entries[h.id].site

UsernameWritten(h) ==
    IF h.route = "create" \/ h.username # Absent THEN h.username ELSE entries[h.id].username

\* The write of h would give its user a second entry with the same site and username.
WouldDuplicate(h) ==
    /\ h.route \in {"create", "update"}
    /\ h.route = "update" => h.id \in DOMAIN entries
    /\ Duplicates(h.userId, SiteWritten(h), UsernameWritten(h), h.id) # {}

NoDuplicates ==
    \A id \in DOMAIN entries :
        Duplicates(entries[id].userId, entries[id].site, entries[id].username, id) = {}

DuplicateRejected ==
    \A h \in Running :
        (inflight' = Finished(h) /\ WouldDuplicate(h))
            => /\ entries' = entries
               /\ reply'.endpoint = h.route
               /\ reply'.status \in {400, 500}

\* C21: unique site and username per user: after any sequence or interleaving
\* of create and update requests no user owns two entries with the same site
\* and username, and a create or update that would produce such a duplicate is
\* rejected and leaves all stored entries unchanged.
UniqueSiteUsername == [][DuplicateRejected]_vars /\ []NoDuplicates

\* Two requests passed their checks, one has written, and the write of the
\* other, which would have duplicated its entry, was refused by the index.
UniqueSiteUsernameWitness ==
    /\ reply.status = 500
    /\ reply.endpoint \in {"create", "update"}
    /\ \E id \in DOMAIN entries : entries[id].userId = reply.caller
    /\ inflight = EmptyBag

\* The request of the handler h lists a tag id that is not a tag of its caller.
ListsForeignTag(h) ==
    /\ h.route \in {"create", "update"}
    /\ h.tagIds # Undefined
    /\ \E i \in DOMAIN h.tagIds :
          h.tagIds[i] \notin DOMAIN tags \/ tags[h.tagIds[i]].userId # h.userId

LinksSameOwner ==
    \A l \in links :
        (l[1] \in DOMAIN entries /\ l[2] \in DOMAIN tags)
            => entries[l[1]].userId = tags[l[2]].userId

ForeignTagRejected ==
    /\ \A h \in Running :
          (inflight' = Finished(h) /\ ListsForeignTag(h))
              => /\ reply' = Reply(h.route, h.userId, 400,
                                   [error |-> "Some tags do not belong to you"])
                 /\ UNCHANGED <<entries, links, tags>>
    /\ (reply' # reply /\ reply'.status = 400) => UNCHANGED <<entries, links, tags>>

\* C30: tag links never cross users: after any sequence of create and update
\* requests on password entries every tag linked to an entry is owned by the
\* user who owns the entry, and a request that lists a tag id which does not
\* belong to the caller is rejected and changes nothing.
TagLinksNeverCross == [][ForeignTagRejected]_vars /\ []LinksSameOwner

\* bob listed the tag of alice and was refused, while alice has linked it.
TagLinksNeverCrossWitness ==
    /\ reply.status = 400
    /\ reply = Reply(reply.endpoint, "bob", 400, [error |-> "Some tags do not belong to you"])
    /\ 1 \in DOMAIN tags
    /\ tags[1].userId = "alice"
    /\ \E l \in links : l[2] = 1

\* The tags the entry id is linked to, before and after a step.
LinkedTo(id) == {l[2] : l \in {x \in links : x[1] = id}}

LinkedToNext(id) == {l[2] : l \in {x \in links' : x[1] = id}}

UpdateFramed ==
    \A h \in Running :
        (h.route = "update" /\ inflight' = Finished(h) /\ reply'.status = 200)
            => /\ h.id \in DOMAIN entries /\ h.id \in DOMAIN entries'
               /\ h.tagIds # Undefined
                     => LinkedToNext(h.id) = {h.tagIds[i] : i \in DOMAIN h.tagIds}
               /\ h.tagIds = Undefined => LinkedToNext(h.id) = LinkedTo(h.id)
               /\ h.password = Undefined => entries'[h.id].password = entries[h.id].password
               /\ h.notes = Undefined => entries'[h.id].notes = entries[h.id].notes

\* C23: update replaces tags and frames the rest: a successful PUT on a password
\* entry that supplies tagIds leaves the entry linked to exactly that set of
\* tags, and a PUT that omits tagIds, password or notes leaves the links, the
\* stored password ciphertext or the stored notes ciphertext unchanged.
UpdateReplacesTags == [][UpdateFramed]_vars

\* A PUT with a new password only has succeeded on an entry that is linked to a
\* tag and has notes: the link and the notes ciphertext of its creation stay.
UpdateReplacesTagsWitness ==
    /\ reply.status = 200
    /\ reply.endpoint = "update"
    /\ reply.body.passwordEntry.password = <<98>>
    /\ LET id == reply.body.passwordEntry.id
       IN /\ id \in DOMAIN entries
          /\ LinkedTo(id) # {}
          /\ entries[id].notes # DbNull
          /\ decrypt(entries[id].notes, entries[id].salt).value = <<97>>

\* Every tag and entry refers to an existing user, and every link to an
\* existing entry and an existing tag.
ReferentialIntegrity ==
    /\ \A t \in DOMAIN tags : tags[t].userId \in DOMAIN db
    /\ \A e \in DOMAIN entries : entries[e].userId \in DOMAIN db
    /\ \A l \in links : l[1] \in DOMAIN entries /\ l[2] \in DOMAIN tags

\* A step that deletes a user removes the tags and the entries of the user and
\* the links of those tags and entries.
UserDeleteCascades ==
    \A u \in DOMAIN db \ DOMAIN db' :
        /\ \A t \in DOMAIN tags' : tags'[t].userId # u
        /\ \A e \in DOMAIN entries' : entries'[e].userId # u
        /\ \A l \in links' :
              /\ l[1] \in DOMAIN entries => entries[l[1]].userId # u
              /\ l[2] \in DOMAIN tags => tags[l[2]].userId # u

\* C24: cascade delete keeps referential integrity: deleting a user removes all
\* tags, password entries and entry-tag links of that user, and after any
\* sequence of user, tag and entry deletions every tag and entry refers to an
\* existing user and every link to an existing entry and an existing tag.
CascadeDelete == [][UserDeleteCascades]_vars /\ []ReferentialIntegrity

\* bob has been deleted with a tag and a password entry of his, and no tag,
\* entry or link of his is left.
CascadeDeleteWitness ==
    /\ reply.status = 200
    /\ reply.endpoint = "userDelete"
    /\ reply.body.deletedData.user = "bob"
    /\ reply.body.deletedData.tags > 0
    /\ reply.body.deletedData.passwordEntries > 0
    /\ "bob" \notin DOMAIN db
    /\ \A t \in DOMAIN tags : tags[t].userId # "bob"
    /\ \A e \in DOMAIN entries : entries[e].userId # "bob"

====
